---- MODULE Spec2Model ----
(***************************************************************************)
(* Model of the image-aes-wasm backend: ImageCrypto (AES-256-CBC envelope  *)
(* encryption), JWTUtils (scoped bearer tokens), ImageService (encrypt /   *)
(* issue key / redeem key / download / delete over an in-memory key cache) *)
(* and SecurityMiddleware (failure-triggered IP ban, route gate).          *)
(*                                                                         *)
(* Time is counted in seconds (the code's Date.now() is in ms and every    *)
(* duration it uses is a whole number of seconds).                         *)
(***************************************************************************)
EXTENDS Integers, Sequences, FiniteSets, TLC

(***************************************************************************)
(* Bytes and buffers                                                       *)
(***************************************************************************)

\* Bitwise exclusive-or of two bytes (the chaining operation of CBC).
RECURSIVE Xor(_, _)
Xor(a, b) ==
  IF a = 0 THEN b
  ELSE IF b = 0 THEN a
  ELSE (((a % 2) + (b % 2)) % 2) + (2 * Xor(a \div 2, b \div 2))

\* Xor tabulated once for all byte pairs.
XorTable == [a \in 0..255 |-> [b \in 0..255 |-> Xor(a, b)]]

XorBuf(x, y) == [i \in 1..Len(x) |-> XorTable[x[i]][y[i]]]

\* A function computed once and kept as an explicit table.
Tabulated(f) == f @@ << >>

\* Buffer.slice(from) / Buffer.slice(0, n)
Slice(buf, from, to) == [i \in 1..(to - from + 1) |-> buf[from + i - 1]]

RECURSIVE SumBytes(_)
SumBytes(buf) == IF buf = <<>> THEN 0 ELSE Head(buf) + SumBytes(Tail(buf))

RECURSIVE WeightedSum(_, _)
WeightedSum(buf, w) ==
  IF buf = <<>> THEN 0 ELSE (w * Head(buf)) + WeightedSum(Tail(buf), w + 1)

(***************************************************************************)
(* ImageCrypto: src/backend/src/utils/crypto.js                            *)
(***************************************************************************)

keyLength == 32
ivLength == 16
\* Block size of the 'aes-256-cbc' algorithm.
BlockSize == 16

\* crypto.createHash('sha256').update(data).digest(): a deterministic
\* 32-byte digest of the data (the compression function itself is the
\* runtime's; the model keeps "same input, same 32 bytes").
Sha256(data) ==
  [i \in 1..32 |-> (SumBytes(data) + (i * (WeightedSum(data, 1) + Len(data) + 1))) % 256]

\* The AES block function under a 32-byte key: a keyed permutation of
\* 16-byte blocks (bytes rotated one place and shifted by the key).
BlockEncrypt(key, block) ==
  [i \in 1..BlockSize |->
     (block[(i % BlockSize) + 1] + key[i] + key[i + BlockSize]) % 256]

BlockDecrypt(key, block) ==
  [i \in 1..BlockSize |->
     LET j == ((i + BlockSize - 2) % BlockSize) + 1
     IN  (block[j] + 512 - key[j] - key[j + BlockSize]) % 256]

\* A variant of the padding that adds nothing to a buffer already a whole
\* number of blocks.
Pad_OnlyWhenNeeded(buf) ==
  IF Len(buf) % BlockSize = 0 THEN buf
  ELSE buf \o [i \in 1..(BlockSize - (Len(buf) % BlockSize)) |-> BlockSize - (Len(buf) % BlockSize)]

\* cipher.final(): standard block padding, 1..16 bytes each holding the count.
Pad(buf) ==
  LET n == BlockSize - (Len(buf) % BlockSize)
  IN  buf \o [i \in 1..n |-> n]

PadOk(buf) ==
  /\ Len(buf) >= BlockSize
  /\ LET n == buf[Len(buf)]
     IN  /\ n \in 1..BlockSize
         /\ \A i \in (Len(buf) - n + 1)..Len(buf) : buf[i] = n

Unpad(buf) == SubSeq(buf, 1, Len(buf) - buf[Len(buf)])

RECURSIVE CbcEncrypt(_, _, _)
CbcEncrypt(key, prev, padded) ==
  IF padded = <<>> THEN <<>>
  ELSE LET c == BlockEncrypt(key, XorBuf(Slice(padded, 1, BlockSize), prev))
       IN  c \o CbcEncrypt(key, c, Slice(padded, BlockSize + 1, Len(padded)))

RECURSIVE CbcDecrypt(_, _, _)
CbcDecrypt(key, prev, data) ==
  IF data = <<>> THEN <<>>
  ELSE LET c == Slice(data, 1, BlockSize)
       IN  XorBuf(BlockDecrypt(key, c), prev)
             \o CbcDecrypt(key, c, Slice(data, BlockSize + 1, Len(data)))

\* createCipheriv / createDecipheriv reject a key or IV of the wrong length.
ValidKeyIV(key, iv) == Len(key) = keyLength /\ Len(iv) = ivLength

Failure(msg) == [ok |-> FALSE, error |-> msg]

encryptImage(imageBuffer, key, iv) ==
  IF ~ValidKeyIV(key, iv) THEN Failure("encrypt failed")
  ELSE [ok |-> TRUE, data |-> CbcEncrypt(key, iv, Pad(imageBuffer))]

decryptImage(encryptedBuffer, key, iv) ==
  IF ~ValidKeyIV(key, iv) THEN Failure("decrypt failed")
  ELSE IF Len(encryptedBuffer) % BlockSize # 0 THEN Failure("decrypt failed")
  ELSE LET plain == CbcDecrypt(key, iv, encryptedBuffer)
       IN  IF PadOk(plain) THEN [ok |-> TRUE, data |-> Unpad(plain)]
           ELSE Failure("decrypt failed")

(***************************************************************************)
(* base64: Buffer.toString('base64') and Buffer.from(s, 'base64').  A      *)
(* string is the sequence of its symbols 0..63, with 64 for '='.           *)
(***************************************************************************)
B64Pad == 64

RECURSIVE Base64Encode(_)
Base64Encode(buf) ==
  IF Len(buf) = 0 THEN <<>>
  ELSE IF Len(buf) = 1 THEN
    << buf[1] \div 4, (buf[1] % 4) * 16, B64Pad, B64Pad >>
  ELSE IF Len(buf) = 2 THEN
    << buf[1] \div 4, ((buf[1] % 4) * 16) + (buf[2] \div 16), (buf[2] % 16) * 4, B64Pad >>
  ELSE
    << buf[1] \div 4,
       ((buf[1] % 4) * 16) + (buf[2] \div 16),
       ((buf[2] % 16) * 4) + (buf[3] \div 64),
       buf[3] % 64 >> \o Base64Encode(Slice(buf, 4, Len(buf)))

RECURSIVE Base64Decode(_)
Base64Decode(str) ==
  IF Len(str) < 4 THEN <<>>
  ELSE LET a == str[1]  b == str[2]  c == str[3]  d == str[4]
           rest == Slice(str, 5, Len(str))
       IN  IF c = B64Pad THEN << (a * 4) + (b \div 16) >>
           ELSE IF d = B64Pad THEN << (a * 4) + (b \div 16), ((b % 16) * 16) + (c \div 4) >>
           ELSE << (a * 4) + (b \div 16), ((b % 16) * 16) + (c \div 4), ((c % 4) * 64) + d >>
                  \o Base64Decode(rest)

\* A variant of encryptKeyAndIV that wraps the IV under the wrap IV drawn for
\* the key.
encryptKeyAndIV_SharedWrapIV(key, iv, masterKey, keyIV, ivIV) ==
  LET masterKeyHash == Sha256(masterKey)
      encryptedKey == CbcEncrypt(masterKeyHash, keyIV, Pad(key))
      encryptedIV == CbcEncrypt(masterKeyHash, keyIV, Pad(iv))
  IN  [encryptedKey |-> Base64Encode(keyIV \o encryptedKey),
       encryptedIV |-> Base64Encode(keyIV \o encryptedIV)]

\* encryptKeyAndIV(key, iv, masterKey) with the two random wrap IVs it draws.
encryptKeyAndIV(key, iv, masterKey, keyIV, ivIV) ==
  LET masterKeyHash == Sha256(masterKey)
      encryptedKey == CbcEncrypt(masterKeyHash, keyIV, Pad(key))
      encryptedIV == CbcEncrypt(masterKeyHash, ivIV, Pad(iv))
  IN  [encryptedKey |-> Base64Encode(keyIV \o encryptedKey),
       encryptedIV |-> Base64Encode(ivIV \o encryptedIV)]

\* A variant of decryptKeyAndIV that takes the key's CBC IV from the wrapped IV
\* instead of from the wrapped key.
decryptKeyAndIV_SharedIV(encryptedKey, encryptedIV, masterKey) ==
  LET masterKeyHash == Sha256(masterKey)
      keyBuffer == Base64Decode(encryptedKey)
      ivBuffer == Base64Decode(encryptedIV)
  IN  IF Len(keyBuffer) < ivLength \/ Len(ivBuffer) < ivLength
      THEN Failure("key decrypt failed")
      ELSE LET k == decryptImage(Slice(keyBuffer, ivLength + 1, Len(keyBuffer)),
                                 masterKeyHash, Slice(ivBuffer, 1, ivLength))
               v == decryptImage(Slice(ivBuffer, ivLength + 1, Len(ivBuffer)),
                                 masterKeyHash, Slice(ivBuffer, 1, ivLength))
           IN  IF k.ok /\ v.ok THEN [ok |-> TRUE, key |-> k.data, iv |-> v.data]
               ELSE Failure("key decrypt failed")

decryptKeyAndIV(encryptedKey, encryptedIV, masterKey) ==
  LET masterKeyHash == Sha256(masterKey)
      keyBuffer == Base64Decode(encryptedKey)
      ivBuffer == Base64Decode(encryptedIV)
  IN  IF Len(keyBuffer) < ivLength \/ Len(ivBuffer) < ivLength
      THEN Failure("key decrypt failed")
      ELSE LET k == decryptImage(Slice(keyBuffer, ivLength + 1, Len(keyBuffer)),
                                 masterKeyHash, Slice(keyBuffer, 1, ivLength))
               v == decryptImage(Slice(ivBuffer, ivLength + 1, Len(ivBuffer)),
                                 masterKeyHash, Slice(ivBuffer, 1, ivLength))
           IN  IF k.ok /\ v.ok THEN [ok |-> TRUE, key |-> k.data, iv |-> v.data]
               ELSE Failure("key decrypt failed")


(***************************************************************************)
(* Finite input sets                                                       *)
(***************************************************************************)
Users == {"u1", "u2"}
\* A falsy userId argument (undefined / empty string).
NoUser == ""
Requesters == Users \cup {NoUser}
\* crypto.randomUUID() values for images, sessions and stored file names.
ImageIds == {"i1", "i2"}
SessionIds == {"s1", "s2"}
OneTimeSessionIds == {"o1"}
Paths == {"f1", "f2"}
\* decoded.sessionId of a token that carries none.
NoSession == "undefined"
NoImage == "none"

Plaintexts == { <<137, 80, 78, 71, 13>>, [i \in 1..16 |-> 200 + i] }

\* What one upload draws from crypto.randomBytes: the 32-byte key, the
\* 16-byte IV, and the two 16-byte wrap IVs of encryptKeyAndIV.
RandomDraws ==
  { [key |-> [i \in 1..32 |-> i], iv |-> [i \in 1..16 |-> (3 * i) % 256],
     keyIV |-> [i \in 1..16 |-> 255 - i], ivIV |-> [i \in 1..16 |-> (5 * i) % 256]],
    [key |-> [i \in 1..32 |-> (7 * i + 3) % 256], iv |-> [i \in 1..16 |-> 255 - i],
     keyIV |-> [i \in 1..16 |-> (3 * i) % 256], ivIV |-> [i \in 1..16 |-> (3 * i) % 256]] }

\* process.env.ENCRYPTION_KEY || 'default-master-key-change-in-production'
masterKey ==
  << 100, 101, 102, 97, 117, 108, 116, 45, 109, 97, 115, 116, 101, 114, 45,
     107, 101, 121, 45, 99, 104, 97, 110, 103, 101, 45, 105, 110, 45, 112,
     114, 111, 100, 117, 99, 116, 105, 111, 110 >>

\* JWTUtils: JWT_EXPIRES_IN '1h' and KEY_EXPIRES_IN 60, in seconds.
expiresIn == 3600
keyExpiresIn == 60
\* ImageService.setupCacheCleanup: setInterval(..., 30000).
cleanupInterval == 30

\* The clock advances TickStep seconds at a time, up to MaxTime.
TickStep == 30
MaxTime == 90
\* At most MaxTokens signed tokens are ever issued.
MaxTokens == 4

VARIABLES
  now,            \* the clock, in seconds
  metadataFiles,  \* METADATA_DIR: imageId -> metadata record
  encryptedFiles, \* ENCRYPTED_DIR: file path -> ciphertext
  keyCache,       \* ImageService.keyCache: <<imageId, sessionId>> -> entry
  issuedTokens,   \* every token signed so far
  usedIds,        \* UUIDs drawn so far
  uploaded,       \* history: imageId -> the plaintext uploaded
  last,           \* the last service call and what it returned
  ipAttempts,     \* SecurityMiddleware.ipAttempts: ip -> {count, firstAttempt, lastAttempt}
  blockedIPs,     \* SecurityMiddleware.blockedIPs
  timers,         \* pending setTimeout callbacks of the security middleware
  pending,        \* responses with a 'finish' listener attached, not yet finished
  failureLog,     \* history: ip -> times of the failures recorded in the last timeWindow
  blockLog,       \* history: ip -> the last block installed for it and when it ends
  hits,           \* keyAccessRateLimit's store: key -> {totalHits, resetTime}
  keyRequests,    \* history: the get-key requests made and how they were answered
  wasmDecryptor,  \* ImageDecryptor.wasmDecryptor is set (the module is loaded)
  initResult,     \* what the last ImageDecryptor.initialize settled to
  call,           \* the decryptImage call in progress: arguments and position
  progress,       \* history: the values passed to its progressCallback
  cipherCalls,    \* history: the backend cipher calls it made
  started,       \* history: the actions handleWithFallback started for it
  outcome,        \* what its promise settled to
  elapsed,        \* ms since it was made
  handled,        \* the last handleWithFallback call on arbitrary actions
  verified,       \* the last verifyDecryptedImage call
  envelopeCall,   \* the last ImageCrypto.encryptKeyAndIV call and what it returned
  unwrapCall,     \* the last ImageCrypto.decryptKeyAndIV call on that envelope
  encryptCall,    \* the last ImageCrypto.encryptImage call and what it returned
  decryptCall,    \* the last ImageCrypto.decryptImage call on that ciphertext
  oneTimeCall,    \* the last POST /one-time-token request that reached its handler
  apiCall,        \* the ApiClient call in progress, or the last one settled
  keyCalls,       \* the getDecryptionKey calls waiting for getMetadata
  keyResults,     \* history: caller -> what its getDecryptionKey call returned
  testResults,    \* the results pushed so far by a FunctionalityTester loop
  wasmModule,     \* WasmLoader.wasmModule: Null, or the module of the n-th load
  isLoaded,       \* WasmLoader.isLoaded
  isLoading,      \* WasmLoader.isLoading
  loadPromise,    \* WasmLoader.loadPromise: Null, or the promise of the n-th load
  loads,          \* the _loadWasmModule promises created so far and their states
  loadCalls,      \* history: the loadWasm calls made and what each returned
  unloaded,       \* history: no loadWasm call since construction or the last unloadWasm
  lastSettled     \* history: the load that settled last, Null after unloadWasm

imageVars == << metadataFiles, encryptedFiles, keyCache, issuedTokens,
                usedIds, uploaded, last >>

limiterVars == << hits, keyRequests >>

securityVars == << ipAttempts, blockedIPs, timers, pending, failureLog, blockLog,
                   limiterVars >>

clientVars == << wasmDecryptor, initResult, call, progress, cipherCalls, started,
                outcome, elapsed, handled, verified >>

cryptoVars == << envelopeCall, unwrapCall, encryptCall, decryptCall >>

apiVars == << oneTimeCall, apiCall, keyCalls, keyResults, testResults >>

loaderVars ==
  << wasmModule, isLoaded, isLoading, loadPromise, loads, loadCalls, unloaded, lastSettled >>

vars == << now, imageVars, securityVars, clientVars, cryptoVars, apiVars, loaderVars >>

(***************************************************************************)
(* JWTUtils: src/backend/src/controllers/imageController.js:399-611        *)
(***************************************************************************)

\* jwt.sign(payload, secret, {expiresIn}) at time t.  The random nonce and
\* the timestamp of the payload are not read by any verification.
generateToken(payload, ttl, t) ==
  [userId |-> payload.userId, imageId |-> payload.imageId,
   type |-> payload.type, sessionId |-> payload.sessionId,
   exp |-> t + ttl, signed |-> TRUE]

generateImageToken(userId, imageId, t) ==
  generateToken([userId |-> userId, imageId |-> imageId,
                 type |-> "image_access", sessionId |-> NoSession], expiresIn, t)

generateKeyToken(userId, imageId, sessionId, t) ==
  generateToken([userId |-> userId, imageId |-> imageId,
                 type |-> "key_access", sessionId |-> sessionId], keyExpiresIn, t)

generateOneTimeToken(userId, imageId, sessionId, expiresInSeconds, t) ==
  generateToken([userId |-> userId, imageId |-> imageId,
                 type |-> "one_time_access", sessionId |-> sessionId],
                expiresInSeconds, t)

\* jwt.verify: signature first, then expiry (expired once now >= exp).
verifyToken(token, t) ==
  IF ~token.signed THEN Failure("Token invalid")
  ELSE IF t >= token.exp THEN Failure("Token expired")
  ELSE [ok |-> TRUE, decoded |-> token]

verifyImageAccess(token, imageId, userId, t) ==
  LET v == verifyToken(token, t)
  IN  IF ~v.ok THEN [valid |-> FALSE, error |-> v.error]
      ELSE IF v.decoded.type # "image_access" /\ v.decoded.type # "key_access"
        THEN [valid |-> FALSE, error |-> "wrong token type"]
      ELSE IF v.decoded.imageId # imageId
        THEN [valid |-> FALSE, error |-> "imageId mismatch"]
      ELSE IF userId # NoUser /\ v.decoded.userId # userId
        THEN [valid |-> FALSE, error |-> "userId mismatch"]
      ELSE [valid |-> TRUE, userId |-> v.decoded.userId,
            imageId |-> v.decoded.imageId, sessionId |-> v.decoded.sessionId,
            type |-> v.decoded.type]

\* refreshToken: the verified payload signed again with the default lifetime.
refreshToken(token, t) ==
  LET v == verifyToken(token, t)
  IN  IF ~v.ok THEN Failure("refresh failed")
      ELSE [ok |-> TRUE, token |-> generateToken(v.decoded, expiresIn, t)]

\* A token as the model keeps it: an expiry beyond the model's horizon is
\* kept as MaxTime + 1 (no clock value of the model tells the two apart).
Issued(token) ==
  [token EXCEPT !.exp = IF token.exp > MaxTime THEN MaxTime + 1 ELSE token.exp]

\* Tokens a caller can present: the issued ones, and forgeries that carry
\* any payload but not the server's signature.
ForgedTokens ==
  { [userId |-> u, imageId |-> i, type |-> ty, sessionId |-> s,
     exp |-> MaxTime + 1, signed |-> FALSE] :
      u \in {"u2"}, i \in {"i1"}, ty \in {"image_access", "key_access"},
      s \in {"s1"} }

Presentable == issuedTokens \cup ForgedTokens

(***************************************************************************)
(* ImageService: src/unnamed/part_000:236-601                              *)
(***************************************************************************)

Without(f, keys) == [x \in DOMAIN f \ keys |-> f[x]]

Called(op, imageId, ok, error) ==
  [op |-> op, imageId |-> imageId, ok |-> ok, error |-> error]

\* getMetadata(imageId): the parsed file, or null when it cannot be read.
HasMetadata(imageId) == imageId \in DOMAIN metadataFiles

\* The cipher calls of the service, evaluated once per input: what
\* encryptImage, generateFileHash, encryptKeyAndIV and decryptKeyAndIV return
\* for the buffers and random draws of the model.
EncryptedImages ==
  [p \in Plaintexts, d \in RandomDraws |-> encryptImage(p, d.key, d.iv)]

FileHashes == [p \in Plaintexts |-> Sha256(p)]

WrappedKeys ==
  [d \in RandomDraws |-> encryptKeyAndIV(d.key, d.iv, masterKey, d.keyIV, d.ivIV)]

UnwrappedKeys ==
  [w \in {WrappedKeys[d] : d \in RandomDraws} |->
     decryptKeyAndIV(w.encryptedKey, w.encryptedIV, masterKey)]

\* A variant of encryptAndStoreImage that also caches the raw key and IV of
\* the upload.
encryptAndStoreImage_CachesKey(imageBuffer, userId, draw, imageId, filePath, fileOk, metaOk) ==
  /\ imageId \notin usedIds /\ filePath \notin usedIds
  /\ Cardinality(issuedTokens) < MaxTokens
  /\ fileOk /\ metaOk
  /\ LET encrypted == EncryptedImages[imageBuffer, draw]
         wrapped == WrappedKeys[draw]
         metadata == [imageId |-> imageId, userId |-> userId,
                      filePath |-> filePath, fileHash |-> FileHashes[imageBuffer],
                      encryptedKey |-> wrapped.encryptedKey,
                      encryptedIV |-> wrapped.encryptedIV,
                      fileSize |-> Len(imageBuffer),
                      encryptedSize |-> Len(encrypted.data)]
     IN  /\ usedIds' = usedIds \cup {filePath, imageId}
         /\ encryptedFiles' = encryptedFiles @@ (filePath :> encrypted.data)
         /\ metadataFiles' = metadataFiles @@ (imageId :> metadata)
         /\ issuedTokens' = issuedTokens \cup {Issued(generateImageToken(userId, imageId, now))}
         /\ uploaded' = uploaded @@ (imageId :> imageBuffer)
         /\ keyCache' = keyCache @@
              (<<imageId, "upload">> :>
                 [key |-> Base64Encode(draw.key), iv |-> Base64Encode(draw.iv),
                  expiresAt |-> now + keyExpiresIn,
                  userId |-> userId, imageId |-> imageId])
         /\ last' = Called("encrypt", imageId, TRUE, "")
  /\ UNCHANGED now
  /\ UNCHANGED << securityVars, clientVars, loaderVars, cryptoVars, apiVars >>

\* encryptAndStoreImage(imageBuffer, originalName, userId).  draw is the
\* random bytes it draws, imageId and filePath the UUIDs it draws, fileOk /
\* metaOk whether fs.writeFile succeeds for the ciphertext and the metadata.
encryptAndStoreImage(imageBuffer, userId, draw, imageId, filePath, fileOk, metaOk) ==
  /\ imageId \notin usedIds /\ filePath \notin usedIds
  /\ Cardinality(issuedTokens) < MaxTokens
  /\ LET encrypted == EncryptedImages[imageBuffer, draw]
         fileHash == FileHashes[imageBuffer]
         wrapped == WrappedKeys[draw]
         accessToken == Issued(generateImageToken(userId, imageId, now))
         metadata == [imageId |-> imageId, userId |-> userId,
                      filePath |-> filePath, fileHash |-> fileHash,
                      encryptedKey |-> wrapped.encryptedKey,
                      encryptedIV |-> wrapped.encryptedIV,
                      fileSize |-> Len(imageBuffer),
                      encryptedSize |-> Len(encrypted.data)]
     IN  IF ~fileOk
           THEN /\ usedIds' = usedIds \cup {filePath}
                /\ UNCHANGED << encryptedFiles, metadataFiles, issuedTokens, uploaded >>
                /\ last' = Called("encrypt", imageId, FALSE, "file save failed")
           ELSE /\ usedIds' = usedIds \cup {filePath, imageId}
                /\ encryptedFiles' = encryptedFiles @@ (filePath :> encrypted.data)
                /\ IF ~metaOk
                     THEN /\ UNCHANGED << metadataFiles, issuedTokens, uploaded >>
                          /\ last' = Called("encrypt", imageId, FALSE, "metadata save failed")
                     ELSE /\ metadataFiles' = metadataFiles @@ (imageId :> metadata)
                          /\ issuedTokens' = issuedTokens \cup {accessToken}
                          /\ uploaded' = uploaded @@ (imageId :> imageBuffer)
                          /\ last' = Called("encrypt", imageId, TRUE, "")
  /\ UNCHANGED << now, keyCache >>
  /\ UNCHANGED << securityVars, clientVars, loaderVars, cryptoVars, apiVars >>

\* What getDecryptionKey(imageId, token, userId) returns or throws, when
\* sessionId is the UUID it draws.
\* A variant of getDecryptionKey without the owner comparison.
getDecryptionKeyResult_NoOwnerCheck(imageId, token, userId, sessionId) ==
  LET verification == verifyImageAccess(token, imageId, userId, now)
  IN  IF ~verification.valid THEN Failure(verification.error)
      ELSE IF ~HasMetadata(imageId) THEN Failure("image does not exist")
      ELSE LET m == metadataFiles[imageId]
               unwrapped == UnwrappedKeys[[encryptedKey |-> m.encryptedKey,
                                           encryptedIV |-> m.encryptedIV]]
           IN  IF ~unwrapped.ok THEN Failure("key decrypt failed")
               ELSE [ok |-> TRUE,
                     keyToken |-> Issued(generateKeyToken(userId, imageId, sessionId, now)),
                     sessionId |-> sessionId,
                     expiresIn |-> keyExpiresIn,
                     key |-> Base64Encode(unwrapped.key),
                     iv |-> Base64Encode(unwrapped.iv)]

getDecryptionKeyResult(imageId, token, userId, sessionId) ==
  LET verification == verifyImageAccess(token, imageId, userId, now)
  IN  IF ~verification.valid THEN Failure(verification.error)
      ELSE IF ~HasMetadata(imageId) THEN Failure("image does not exist")
      ELSE IF metadataFiles[imageId].userId # userId THEN Failure("not the owner")
      ELSE LET m == metadataFiles[imageId]
               unwrapped == UnwrappedKeys[[encryptedKey |-> m.encryptedKey,
                                           encryptedIV |-> m.encryptedIV]]
           IN  IF ~unwrapped.ok THEN Failure("key decrypt failed")
               ELSE [ok |-> TRUE,
                     keyToken |-> Issued(generateKeyToken(userId, imageId, sessionId, now)),
                     sessionId |-> sessionId,
                     expiresIn |-> keyExpiresIn,
                     key |-> Base64Encode(unwrapped.key),
                     iv |-> Base64Encode(unwrapped.iv)]

getDecryptionKey(imageId, token, userId, sessionId) ==
  /\ sessionId \notin usedIds
  /\ Cardinality(issuedTokens) < MaxTokens
  /\ LET r == getDecryptionKeyResult(imageId, token, userId, sessionId)
     IN  IF r.ok
           THEN /\ usedIds' = usedIds \cup {sessionId}
                /\ issuedTokens' = issuedTokens \cup {r.keyToken}
                /\ keyCache' = keyCache @@
                     (<<imageId, sessionId>> :>
                        [key |-> r.key, iv |-> r.iv,
                         expiresAt |-> now + keyExpiresIn,
                         userId |-> userId, imageId |-> imageId])
                /\ last' = Called("getKey", imageId, TRUE, "")
           ELSE /\ UNCHANGED << usedIds, issuedTokens, keyCache >>
                /\ last' = Called("getKey", imageId, FALSE, r.error)
  /\ UNCHANGED << now, metadataFiles, encryptedFiles, uploaded >>
  /\ UNCHANGED << securityVars, clientVars, loaderVars, cryptoVars, apiVars >>

(***************************************************************************)
(* getDecryptionKey as the event loop runs it: the part up to              *)
(* `await this.getMetadata(imageId)`, then, once the file is read, the     *)
(* rest.  Other calls run between the two parts.                           *)
(***************************************************************************)
Callers == {"c1", "c2"}

\* A variant of unwrapMetadata that unwraps the record of the first image.
unwrapMetadata_FirstRecord(metadata) ==
  UnwrappedKeys[WrappedKeys[CHOOSE d \in RandomDraws : d.key[1] = 1]]

\* this.imageCrypto.decryptKeyAndIV(metadata.encryptedKey,
\* metadata.encryptedIV, this.masterKey)
unwrapMetadata(metadata) ==
  UnwrappedKeys[[encryptedKey |-> metadata.encryptedKey,
                 encryptedIV |-> metadata.encryptedIV]]

\* Up to the await: the access check, then the read of the metadata file.
getDecryptionKeyBegins(caller, imageId, token, userId) ==
  /\ caller \notin DOMAIN keyResults
  /\ \A waiting \in keyCalls : waiting.caller # caller
  /\ LET verification == verifyImageAccess(token, imageId, userId, now)
     IN  IF ~verification.valid
           THEN /\ last' = Called("getKey", imageId, FALSE, verification.error)
                /\ UNCHANGED keyCalls
           ELSE /\ keyCalls' = keyCalls \cup
                     {[caller |-> caller, imageId |-> imageId, userId |-> userId,
                       metadata |-> IF HasMetadata(imageId) THEN {metadataFiles[imageId]}
                                    ELSE {}]}
                /\ UNCHANGED last
  /\ UNCHANGED << now, metadataFiles, encryptedFiles, keyCache, issuedTokens, usedIds,
                  uploaded >>
  /\ UNCHANGED << securityVars, clientVars, loaderVars, cryptoVars, oneTimeCall, apiCall, keyResults, testResults >>

\* A variant of getDecryptionKeyResumes that keeps one cache entry per image.
getDecryptionKeyResumes_OneEntryPerImage(waiting, sessionId) ==
  /\ waiting \in keyCalls
  /\ sessionId \notin usedIds
  /\ Cardinality(issuedTokens) < MaxTokens
  /\ keyCalls' = keyCalls \ {waiting}
  /\ IF waiting.metadata = {}
       THEN /\ last' = Called("getKey", waiting.imageId, FALSE, "image does not exist")
            /\ UNCHANGED << usedIds, issuedTokens, keyCache, keyResults >>
     ELSE LET m == CHOOSE x \in waiting.metadata : TRUE
              unwrapped == unwrapMetadata(m)
              keyToken == Issued(generateKeyToken(waiting.userId, waiting.imageId, sessionId, now))
              cacheKey == << waiting.imageId, sessionId >>
              entry == [key |-> Base64Encode(unwrapped.key), iv |-> Base64Encode(unwrapped.iv),
                        expiresAt |-> now + keyExpiresIn,
                        userId |-> waiting.userId, imageId |-> waiting.imageId]
          IN  IF m.userId # waiting.userId
                THEN /\ last' = Called("getKey", waiting.imageId, FALSE, "not the owner")
                     /\ UNCHANGED << usedIds, issuedTokens, keyCache, keyResults >>
              ELSE IF ~unwrapped.ok
                THEN /\ last' = Called("getKey", waiting.imageId, FALSE, "key decrypt failed")
                     /\ UNCHANGED << usedIds, issuedTokens, keyCache, keyResults >>
              ELSE /\ usedIds' = usedIds \cup {sessionId}
                   /\ issuedTokens' = issuedTokens \cup {keyToken}
                   /\ keyCache' =
                        [k \in {x \in DOMAIN keyCache : x[1] # waiting.imageId} \cup {cacheKey} |->
                           IF k = cacheKey THEN entry ELSE keyCache[k]]
                   /\ keyResults' = keyResults @@
                        (waiting.caller :>
                           [imageId |-> waiting.imageId, sessionId |-> sessionId,
                            keyToken |-> keyToken, key |-> entry.key, iv |-> entry.iv,
                            issuedAt |-> now, overlapped |-> keyCalls' # {}])
                   /\ last' = Called("getKey", waiting.imageId, TRUE, "")
  /\ UNCHANGED << now, metadataFiles, encryptedFiles, uploaded >>
  /\ UNCHANGED << securityVars, clientVars, loaderVars, cryptoVars, oneTimeCall, apiCall, testResults >>

\* After the await: the owner check on the metadata that was read, the
\* unwrap, a new sessionId, the key token and keyCache.set.
getDecryptionKeyResumes(waiting, sessionId) ==
  /\ waiting \in keyCalls
  /\ sessionId \notin usedIds
  /\ Cardinality(issuedTokens) < MaxTokens
  /\ keyCalls' = keyCalls \ {waiting}
  /\ IF waiting.metadata = {}
       THEN /\ last' = Called("getKey", waiting.imageId, FALSE, "image does not exist")
            /\ UNCHANGED << usedIds, issuedTokens, keyCache, keyResults >>
     ELSE LET m == CHOOSE x \in waiting.metadata : TRUE
              unwrapped == unwrapMetadata(m)
              keyToken == Issued(generateKeyToken(waiting.userId, waiting.imageId, sessionId, now))
              cacheKey == << waiting.imageId, sessionId >>
              entry == [key |-> Base64Encode(unwrapped.key), iv |-> Base64Encode(unwrapped.iv),
                        expiresAt |-> now + keyExpiresIn,
                        userId |-> waiting.userId, imageId |-> waiting.imageId]
          IN  IF m.userId # waiting.userId
                THEN /\ last' = Called("getKey", waiting.imageId, FALSE, "not the owner")
                     /\ UNCHANGED << usedIds, issuedTokens, keyCache, keyResults >>
              ELSE IF ~unwrapped.ok
                THEN /\ last' = Called("getKey", waiting.imageId, FALSE, "key decrypt failed")
                     /\ UNCHANGED << usedIds, issuedTokens, keyCache, keyResults >>
              ELSE /\ usedIds' = usedIds \cup {sessionId}
                   /\ issuedTokens' = issuedTokens \cup {keyToken}
                   /\ keyCache' =
                        [k \in DOMAIN keyCache \cup {cacheKey} |->
                           IF k = cacheKey THEN entry ELSE keyCache[k]]
                   /\ keyResults' = keyResults @@
                        (waiting.caller :>
                           [imageId |-> waiting.imageId, sessionId |-> sessionId,
                            keyToken |-> keyToken, key |-> entry.key, iv |-> entry.iv,
                            issuedAt |-> now, overlapped |-> keyCalls' # {}])
                   /\ last' = Called("getKey", waiting.imageId, TRUE, "")
  /\ UNCHANGED << now, metadataFiles, encryptedFiles, uploaded >>
  /\ UNCHANGED << securityVars, clientVars, loaderVars, cryptoVars, oneTimeCall, apiCall, testResults >>

\* What downloadEncryptedImage(imageId, token, userId) returns or throws.
downloadEncryptedImageResult(imageId, token, userId) ==
  LET verification == verifyImageAccess(token, imageId, userId, now)
  IN  IF ~verification.valid THEN Failure(verification.error)
      ELSE IF ~HasMetadata(imageId) THEN Failure("image does not exist")
      ELSE IF metadataFiles[imageId].userId # userId THEN Failure("not the owner")
      ELSE IF metadataFiles[imageId].filePath \notin DOMAIN encryptedFiles
        THEN Failure("file read failed")
      ELSE [ok |-> TRUE, data |-> encryptedFiles[metadataFiles[imageId].filePath]]

downloadEncryptedImage(imageId, token, userId) ==
  /\ LET r == downloadEncryptedImageResult(imageId, token, userId)
     IN  last' = Called("download", imageId, r.ok, IF r.ok THEN "" ELSE r.error)
  /\ UNCHANGED << now, metadataFiles, encryptedFiles, keyCache, issuedTokens,
                  usedIds, uploaded >>
  /\ UNCHANGED << securityVars, clientVars, loaderVars, cryptoVars, apiVars >>

\* What verifyKeyAccess(keyToken, imageId, sessionId) returns.
\* A variant of verifyKeyAccess without the sessionId comparison.
verifyKeyAccessResult_NoSessionCheck(keyToken, imageId, sessionId) ==
  LET verification == verifyImageAccess(keyToken, imageId, NoUser, now)
      cacheKey == <<imageId, sessionId>>
  IN  IF ~verification.valid THEN [valid |-> FALSE, error |-> verification.error]
      ELSE IF cacheKey \notin DOMAIN keyCache
        THEN [valid |-> FALSE, error |-> "key missing"]
      ELSE IF keyCache[cacheKey].expiresAt < now
        THEN [valid |-> FALSE, error |-> "key expired"]
      ELSE [valid |-> TRUE, key |-> keyCache[cacheKey].key,
            iv |-> keyCache[cacheKey].iv, userId |-> keyCache[cacheKey].userId]

\* A variant of verifyKeyAccess without the expiresAt comparison.
verifyKeyAccessResult_NoExpiry(keyToken, imageId, sessionId) ==
  LET verification == verifyImageAccess(keyToken, imageId, NoUser, now)
      cacheKey == <<imageId, sessionId>>
  IN  IF ~verification.valid THEN [valid |-> FALSE, error |-> verification.error]
      ELSE IF verification.sessionId # sessionId
        THEN [valid |-> FALSE, error |-> "session mismatch"]
      ELSE IF cacheKey \notin DOMAIN keyCache
        THEN [valid |-> FALSE, error |-> "key missing"]
      ELSE [valid |-> TRUE, key |-> keyCache[cacheKey].key,
            iv |-> keyCache[cacheKey].iv, userId |-> keyCache[cacheKey].userId]

verifyKeyAccessResult(keyToken, imageId, sessionId) ==
  LET verification == verifyImageAccess(keyToken, imageId, NoUser, now)
      cacheKey == <<imageId, sessionId>>
  IN  IF ~verification.valid THEN [valid |-> FALSE, error |-> verification.error]
      ELSE IF verification.sessionId # sessionId
        THEN [valid |-> FALSE, error |-> "session mismatch"]
      ELSE IF cacheKey \notin DOMAIN keyCache
        THEN [valid |-> FALSE, error |-> "key missing"]
      ELSE IF keyCache[cacheKey].expiresAt < now
        THEN [valid |-> FALSE, error |-> "key expired"]
      ELSE [valid |-> TRUE, key |-> keyCache[cacheKey].key,
            iv |-> keyCache[cacheKey].iv, userId |-> keyCache[cacheKey].userId]

\* A variant of verifyKeyAccess that removes the entry it redeems.
verifyKeyAccess_Consume(keyToken, imageId, sessionId) ==
  /\ LET r == verifyKeyAccessResult(keyToken, imageId, sessionId)
     IN  /\ keyCache' = IF r.valid \/ r.error = "key expired"
                          THEN Without(keyCache, {<<imageId, sessionId>>})
                          ELSE keyCache
         /\ last' = Called("verifyKey", imageId, r.valid, IF r.valid THEN "" ELSE r.error)
  /\ UNCHANGED << now, metadataFiles, encryptedFiles, issuedTokens, usedIds, uploaded >>
  /\ UNCHANGED << securityVars, clientVars, loaderVars, cryptoVars, apiVars >>

verifyKeyAccess(keyToken, imageId, sessionId) ==
  /\ LET r == verifyKeyAccessResult(keyToken, imageId, sessionId)
     IN  /\ keyCache' = IF ~r.valid /\ r.error = "key expired"
                          THEN Without(keyCache, {<<imageId, sessionId>>})
                          ELSE keyCache
         /\ last' = Called("verifyKey", imageId, r.valid, IF r.valid THEN "" ELSE r.error)
  /\ UNCHANGED << now, metadataFiles, encryptedFiles, issuedTokens, usedIds, uploaded >>
  /\ UNCHANGED << securityVars, clientVars, loaderVars, cryptoVars, apiVars >>

\* A variant of deleteImage that leaves the key cache alone.
deleteImage_NoPurge(imageId, userId, fileOk, metaOk) ==
  /\ IF ~HasMetadata(imageId)
       THEN /\ UNCHANGED << metadataFiles, encryptedFiles, keyCache >>
            /\ last' = Called("delete", imageId, FALSE, "image does not exist")
       ELSE IF metadataFiles[imageId].userId # userId
       THEN /\ UNCHANGED << metadataFiles, encryptedFiles, keyCache >>
            /\ last' = Called("delete", imageId, FALSE, "not the owner")
       ELSE /\ encryptedFiles' =
                 IF fileOk THEN Without(encryptedFiles, {metadataFiles[imageId].filePath})
                 ELSE encryptedFiles
            /\ metadataFiles' =
                 IF metaOk THEN Without(metadataFiles, {imageId}) ELSE metadataFiles
            /\ keyCache' = keyCache
            /\ last' = Called("delete", imageId, TRUE,
                              IF fileOk /\ metaOk THEN "" ELSE "unlink failed (logged)")
  /\ UNCHANGED << now, issuedTokens, usedIds, uploaded >>
  /\ UNCHANGED << securityVars, clientVars, loaderVars, cryptoVars, apiVars >>

\* A variant of deleteImage that throws when the ciphertext unlink fails.
deleteImage_FailFast(imageId, userId, fileOk, metaOk) ==
  /\ IF ~HasMetadata(imageId)
       THEN /\ UNCHANGED << metadataFiles, encryptedFiles, keyCache >>
            /\ last' = Called("delete", imageId, FALSE, "image does not exist")
       ELSE IF metadataFiles[imageId].userId # userId
       THEN /\ UNCHANGED << metadataFiles, encryptedFiles, keyCache >>
            /\ last' = Called("delete", imageId, FALSE, "not the owner")
       ELSE IF ~fileOk
       THEN /\ UNCHANGED << metadataFiles, encryptedFiles, keyCache >>
            /\ last' = Called("delete", imageId, FALSE, "unlink failed")
       ELSE /\ encryptedFiles' = Without(encryptedFiles, {metadataFiles[imageId].filePath})
            /\ metadataFiles' =
                 IF metaOk THEN Without(metadataFiles, {imageId}) ELSE metadataFiles
            /\ keyCache' =
                 Without(keyCache, {k \in DOMAIN keyCache : keyCache[k].imageId = imageId})
            /\ last' = Called("delete", imageId, TRUE,
                              IF metaOk THEN "" ELSE "unlink failed (logged)")
  /\ UNCHANGED << now, issuedTokens, usedIds, uploaded >>
  /\ UNCHANGED << securityVars, clientVars, loaderVars, cryptoVars, apiVars >>

\* A variant of deleteImage that purges the image's cache entries before it
\* looks at the metadata record and the owner.
deleteImage_PurgeFirst(imageId, userId, fileOk, metaOk) ==
  /\ keyCache' =
       Without(keyCache, {k \in DOMAIN keyCache : keyCache[k].imageId = imageId})
  /\ IF ~HasMetadata(imageId)
       THEN /\ UNCHANGED << metadataFiles, encryptedFiles >>
            /\ last' = Called("delete", imageId, FALSE, "image does not exist")
       ELSE IF metadataFiles[imageId].userId # userId
       THEN /\ UNCHANGED << metadataFiles, encryptedFiles >>
            /\ last' = Called("delete", imageId, FALSE, "not the owner")
       ELSE /\ encryptedFiles' =
                 IF fileOk THEN Without(encryptedFiles, {metadataFiles[imageId].filePath})
                 ELSE encryptedFiles
            /\ metadataFiles' =
                 IF metaOk THEN Without(metadataFiles, {imageId}) ELSE metadataFiles
            /\ last' = Called("delete", imageId, TRUE,
                              IF fileOk /\ metaOk THEN "" ELSE "unlink failed (logged)")
  /\ UNCHANGED << now, issuedTokens, usedIds, uploaded >>
  /\ UNCHANGED << securityVars, clientVars, loaderVars, cryptoVars, apiVars >>

\* deleteImage(imageId, userId); fileOk / metaOk: whether fs.unlink succeeds
\* for the ciphertext and for the metadata file.
deleteImage(imageId, userId, fileOk, metaOk) ==
  /\ IF ~HasMetadata(imageId)
       THEN /\ UNCHANGED << metadataFiles, encryptedFiles, keyCache >>
            /\ last' = Called("delete", imageId, FALSE, "image does not exist")
       ELSE IF metadataFiles[imageId].userId # userId
       THEN /\ UNCHANGED << metadataFiles, encryptedFiles, keyCache >>
            /\ last' = Called("delete", imageId, FALSE, "not the owner")
       ELSE /\ encryptedFiles' =
                 IF fileOk THEN Without(encryptedFiles, {metadataFiles[imageId].filePath})
                 ELSE encryptedFiles
            /\ metadataFiles' =
                 IF metaOk THEN Without(metadataFiles, {imageId}) ELSE metadataFiles
            /\ keyCache' =
                 Without(keyCache, {k \in DOMAIN keyCache : keyCache[k].imageId = imageId})
            /\ last' = Called("delete", imageId, TRUE,
                              IF fileOk /\ metaOk THEN "" ELSE "unlink failed (logged)")
  /\ UNCHANGED << now, issuedTokens, usedIds, uploaded >>
  /\ UNCHANGED << securityVars, clientVars, loaderVars, cryptoVars, apiVars >>

\* setupCacheCleanup: the interval callback, due every cleanupInterval.
cacheCleanup ==
  /\ now > 0 /\ now % cleanupInterval = 0
  /\ keyCache' = Without(keyCache, {k \in DOMAIN keyCache : keyCache[k].expiresAt < now})
  /\ last' = Called("cleanup", NoImage, TRUE, "")
  /\ UNCHANGED << now, metadataFiles, encryptedFiles, issuedTokens, usedIds, uploaded >>
  /\ UNCHANGED << securityVars, clientVars, loaderVars, cryptoVars, apiVars >>

\* JWTUtils.refreshToken applied to an issued token.
RefreshToken(token) ==
  /\ Cardinality(issuedTokens) < MaxTokens
  /\ LET r == refreshToken(token, now)
     IN  /\ issuedTokens' = IF r.ok THEN issuedTokens \cup {Issued(r.token)}
                            ELSE issuedTokens
         /\ last' = Called("refresh", NoImage, r.ok, IF r.ok THEN "" ELSE r.error)
  /\ UNCHANGED << now, metadataFiles, encryptedFiles, keyCache, usedIds, uploaded >>
  /\ UNCHANGED << securityVars, clientVars, loaderVars, cryptoVars, apiVars >>

\* POST /one-time-token/:imageId (routes/imageRoutes.js:174-186) declares
\* body('expiresIn').optional().isInt({min: 60, max: 3600}).
minExpiresIn == 60
maxExpiresIn == 3600

\* const { expiresIn = 300 } = req.body
defaultExpiresIn == 300

\* req.body.expiresIn as a client can send it: absent, an integer of
\* seconds, or text that is not a number.
NoExpiresIn == [kind |-> "absent", n |-> 0]
NotANumber == [kind |-> "text", n |-> 0]
Seconds(n) == [kind |-> "int", n |-> n]
ExpiresInBodies ==
  {NoExpiresIn, NotANumber} \cup
  {Seconds(n) : n \in {minExpiresIn - 1, minExpiresIn, maxExpiresIn, maxExpiresIn + 1}}

\* The verdict of the route's validation chain on the body.  The chain
\* stores it in the request and calls next(); it answers nothing itself.
expiresInRule(body) ==
  body.kind = "absent" \/ (body.kind = "int" /\ body.n \in minExpiresIn..maxExpiresIn)

\* parseInt(expiresIn) after the default is applied.
ParseExpiresIn(body) ==
  CASE body.kind = "absent" -> [nan |-> FALSE, n |-> defaultExpiresIn]
    [] body.kind = "int" -> [nan |-> FALSE, n |-> body.n]
    [] OTHER -> [nan |-> TRUE, n |-> 0]

NoOneTimeCall ==
  [imageId |-> NoImage, expiresIn |-> NoExpiresIn, errors |-> FALSE,
   minted |-> FALSE, expiresInSeconds |-> 0]

\* ImageController.generateOneTimeToken behind authMiddleware.verifyToken():
\* req.user is the verified payload of the bearer token; sessionId is the
\* UUID JWTUtils.generateOneTimeToken draws.  The handler never reads the
\* validation result; jwt.sign throws on a timespan of "NaNs".
GenerateOneTimeToken(imageId, token, body, sessionId) ==
  /\ sessionId \notin usedIds
  /\ Cardinality(issuedTokens) < MaxTokens
  /\ LET v == verifyToken(token, now)
         parsed == ParseExpiresIn(body)
         request == [imageId |-> imageId, expiresIn |-> body,
                     errors |-> ~expiresInRule(body),
                     minted |-> FALSE, expiresInSeconds |-> 0]
     IN  IF ~v.ok
           THEN /\ UNCHANGED << usedIds, issuedTokens, oneTimeCall >>
                /\ last' = Called("oneTime", imageId, FALSE, v.error)
         ELSE IF ~HasMetadata(imageId) \/ metadataFiles[imageId].userId # token.userId
           THEN /\ UNCHANGED << usedIds, issuedTokens >>
                /\ oneTimeCall' = request
                /\ last' = Called("oneTime", imageId, FALSE, "not the owner")
         ELSE IF parsed.nan
           THEN /\ usedIds' = usedIds \cup {sessionId}
                /\ UNCHANGED issuedTokens
                /\ oneTimeCall' = request
                /\ last' = Called("oneTime", imageId, FALSE, "expiresIn is not a timespan")
         ELSE /\ usedIds' = usedIds \cup {sessionId}
              /\ issuedTokens' = issuedTokens \cup
                   {Issued(generateOneTimeToken(token.userId, imageId, sessionId,
                                                parsed.n, now))}
              /\ oneTimeCall' = [request EXCEPT !.minted = TRUE,
                                                !.expiresInSeconds = parsed.n]
              /\ last' = Called("oneTime", imageId, TRUE, "")
  /\ UNCHANGED << now, metadataFiles, encryptedFiles, keyCache, uploaded, apiCall,
                  keyCalls, keyResults, testResults >>
  /\ UNCHANGED << securityVars, clientVars, loaderVars, cryptoVars >>

Tick ==
  /\ now + TickStep <= MaxTime
  /\ now' = now + TickStep
  /\ UNCHANGED << metadataFiles, encryptedFiles, keyCache, issuedTokens,
                  usedIds, uploaded, last >>
  /\ UNCHANGED << securityVars, clientVars, loaderVars, cryptoVars, apiVars >>

(***************************************************************************)
(* SecurityMiddleware (middleware/security.js) and the route chains        *)
(* (routes/imageRoutes.js). Times are in seconds.                          *)
(***************************************************************************)
IPs == {"10.0.0.1"}

\* incrementFailedAttempts: timeWindow 15 * 60 * 1000, maxAttempts 20, and the
\* automatic unban after 60 * 60 * 1000.
timeWindow == 900
maxAttempts == 20
unbanDelay == 3600
\* blockIP(ip, duration = 60 * 60 * 1000); 0 blocks without a timer.
Durations == {0, 3600}
\* setupCleanup: every 60 * 60 * 1000, records idle for more than 24 hours.
cleanupPeriod == 3600
expireTime == 86400

\* The clock of the ban machine advances BanTickStep at a time; failures are
\* recorded and blocks installed up to MaxFailureTime, and the clock runs on
\* until the last of their timers is due. An IP's record counts at most
\* MaxFailures failures, and at most MaxInFlight responses wait for their
\* 'finish' event.
BanTickStep == 900
MaxFailureTime == 1800
MaxBanTime == MaxFailureTime + unbanDelay
MaxFailures == 21
MaxInFlight == 1

Routes ==
  { "health", "encrypt-image", "get-key", "download-image", "verify-key",
    "generate-image-token", "images", "image-info", "delete-image", "one-time-token" }

RateLimiters == {"basicRateLimit", "strictRateLimit", "keyAccessRateLimit"}

\* The middleware each route runs before its handler, in order (validators
\* and body parsers, which neither read nor write the security state, left out).
RouteChain(route) ==
  CASE route = "health" -> << >>
    [] route = "encrypt-image" ->
         << "checkIPBlock", "strictRateLimit", "recordFailedAttempt", "optionalAuth" >>
    [] route = "get-key" ->
         << "checkIPBlock", "keyAccessRateLimit", "recordFailedAttempt", "verifyImageAccess" >>
    [] route = "download-image" ->
         << "checkIPBlock", "basicRateLimit", "recordFailedAttempt", "verifyImageAccess" >>
    [] route = "verify-key" -> << "checkIPBlock", "basicRateLimit", "verifyKeyAccess" >>
    [] route = "generate-image-token" -> << "verifyToken" >>
    [] route = "images" -> << "checkIPBlock", "basicRateLimit", "verifyToken" >>
    [] route = "image-info" -> << "checkIPBlock", "basicRateLimit", "optionalAuth" >>
    [] route = "delete-image" ->
         << "checkIPBlock", "strictRateLimit", "recordFailedAttempt", "verifyToken" >>
    [] route = "one-time-token" -> << "checkIPBlock", "strictRateLimit", "verifyToken" >>

\* The statuses an authentication middleware can answer with instead of
\* calling next(): AuthMiddleware.verifyToken 401; verifyImageAccess 401 and
\* 403; verifyKeyAccess 403; optionalAuth none.
AuthRejects(middleware) ==
  CASE middleware = "verifyToken" -> {401}
    [] middleware = "verifyImageAccess" -> {401, 403}
    [] middleware = "verifyKeyAccess" -> {403}
    [] OTHER -> {}

\* What a request brings: whether the rate limiter it meets finds it over the
\* limit, the status its credentials earn (200: accepted), and the status its
\* handler answers with when it runs.
AuthStatuses == {200, 401, 403}
HandlerStatuses == {200, 403}

\* One middleware applied to a request in progress (st.statusCode = 0: no
\* response yet).
RunMiddleware(middleware, ip, limited, authStatus, st) ==
  IF middleware = "checkIPBlock" THEN
    IF ip \in blockedIPs THEN [st EXCEPT !.statusCode = 429] ELSE st
  ELSE IF middleware \in RateLimiters THEN
    IF middleware = "basicRateLimit" /\ ip \in blockedIPs THEN st
    ELSE [st EXCEPT !.consulted = @ \cup {middleware},
                    !.statusCode = IF limited THEN 429 ELSE 0]
  ELSE IF middleware = "recordFailedAttempt" THEN [st EXCEPT !.listening = TRUE]
  ELSE IF authStatus \in AuthRejects(middleware) THEN [st EXCEPT !.statusCode = authStatus]
  ELSE st

RECURSIVE RunChain(_, _, _, _, _)
RunChain(chain, ip, limited, authStatus, st) ==
  IF chain = << >> \/ st.statusCode # 0 THEN st
  ELSE RunChain(Tail(chain), ip, limited, authStatus,
                RunMiddleware(Head(chain), ip, limited, authStatus, st))

\* The response to a request: the chain, then the handler if every
\* middleware called next().
Respond(ip, route, limited, authStatus, handlerStatus) ==
  LET st == RunChain(RouteChain(route), ip, limited, authStatus,
                     [consulted |-> {}, listening |-> FALSE, statusCode |-> 0])
  IN  IF st.statusCode # 0
      THEN [consulted |-> st.consulted, listening |-> st.listening,
            handled |-> FALSE, statusCode |-> st.statusCode]
      ELSE [consulted |-> st.consulted, listening |-> st.listening,
            handled |-> TRUE, statusCode |-> handlerStatus]

\* A request from ip to a route.
Request(ip, route, limited, authStatus, handlerStatus) ==
  LET r == Respond(ip, route, limited, authStatus, handlerStatus)
      response == [ip |-> ip, statusCode |-> r.statusCode]
  IN  /\ r.listening => (response \notin pending /\ Cardinality(pending) < MaxInFlight)
      /\ pending' = IF r.listening THEN pending \cup {response} ELSE pending
      /\ UNCHANGED << now, imageVars, clientVars, loaderVars, cryptoVars, apiVars, limiterVars, ipAttempts, blockedIPs, timers, failureLog, blockLog >>

Recent(log) == SelectSeq(log, LAMBDA t : now - t <= timeWindow)

Attempts(ip) ==
  IF ip \in DOMAIN ipAttempts THEN ipAttempts[ip]
  ELSE [count |-> 0, firstAttempt |-> now, lastAttempt |-> now]

\* blockLog: the block installed last for an IP, by the threshold rule or by
\* blockIP: when, and when its own timer is due (timed FALSE: it has none).
NoBlock == [installed |-> FALSE, at |-> 0, timed |-> FALSE, until |-> 0]

Installed(duration) ==
  [installed |-> TRUE, at |-> now, timed |-> duration > 0, until |-> now + duration]

\* The failure about to be recorded for ip meets the threshold rule.
Bans(ip) ==
  /\ Attempts(ip).count + 1 >= maxAttempts
  /\ now - Attempts(ip).firstAttempt <= timeWindow

\* A variant of incrementFailedAttempts whose timer lifts the block and keeps
\* the record, as blockIP's timer does.
incrementFailedAttempts_KeepRecord(ip) ==
  LET attempts == [Attempts(ip) EXCEPT !.count = @ + 1, !.lastAttempt = now]
  IN  /\ ipAttempts' = [k \in DOMAIN ipAttempts \cup {ip} |->
                          IF k = ip THEN attempts ELSE ipAttempts[k]]
      /\ IF attempts.count >= maxAttempts /\ now - attempts.firstAttempt <= timeWindow
           THEN /\ blockedIPs' = blockedIPs \cup {ip}
                /\ timers' = timers \cup
                     {[callback |-> "unblock", ip |-> ip, due |-> now + unbanDelay]}
           ELSE UNCHANGED << blockedIPs, timers >>

incrementFailedAttempts(ip) ==
  LET attempts == [Attempts(ip) EXCEPT !.count = @ + 1, !.lastAttempt = now]
  IN  /\ ipAttempts' = [k \in DOMAIN ipAttempts \cup {ip} |->
                          IF k = ip THEN attempts ELSE ipAttempts[k]]
      /\ IF attempts.count >= maxAttempts /\ now - attempts.firstAttempt <= timeWindow
           THEN /\ blockedIPs' = blockedIPs \cup {ip}
                /\ timers' = timers \cup
                     {[callback |-> "unban", ip |-> ip, due |-> now + unbanDelay]}
           ELSE UNCHANGED << blockedIPs, timers >>

\* recordFailedAttempt's res.on('finish') listener, for one pending response.
\* A failure is recorded only up to MaxFailureTime and while the record is
\* below MaxFailures; logged: which of the logs failureLog and blockLog are kept.
Finish(response, logged) ==
  /\ response \in pending
  /\ pending' = pending \ {response}
  /\ IF response.statusCode \in {401, 403}
       THEN /\ now <= MaxFailureTime
            /\ Attempts(response.ip).count < MaxFailures
            /\ incrementFailedAttempts(response.ip)
            /\ failureLog' = IF "failureLog" \in logged
                               THEN [failureLog EXCEPT ![response.ip] = Append(Recent(@), now)]
                               ELSE failureLog
            /\ blockLog' = IF "blockLog" \in logged /\ Bans(response.ip)
                             THEN [blockLog EXCEPT ![response.ip] = Installed(unbanDelay)]
                             ELSE blockLog
       ELSE UNCHANGED << ipAttempts, blockedIPs, timers, failureLog, blockLog >>
  /\ UNCHANGED << now, imageVars, clientVars, loaderVars, cryptoVars, apiVars, limiterVars >>

\* A setTimeout callback that is due: the automatic unban of
\* incrementFailedAttempts, or the end of a blockIP.
TimerFires(timer) ==
  /\ timer \in timers
  /\ timer.due <= now
  /\ timers' = timers \ {timer}
  /\ blockedIPs' = blockedIPs \ {timer.ip}
  /\ ipAttempts' = IF timer.callback = "unban" THEN Without(ipAttempts, {timer.ip})
                   ELSE ipAttempts
  /\ UNCHANGED << now, imageVars, clientVars, loaderVars, cryptoVars, apiVars, limiterVars, pending, failureLog, blockLog >>

\* setupCleanup's hourly callback.
securityCleanup ==
  /\ now > 0 /\ now % cleanupPeriod = 0
  /\ ipAttempts' =
       Without(ipAttempts,
               {ip \in DOMAIN ipAttempts : now - ipAttempts[ip].lastAttempt > expireTime})
  /\ UNCHANGED << now, imageVars, clientVars, loaderVars, cryptoVars, apiVars, limiterVars, blockedIPs, timers, pending, failureLog, blockLog >>

\* logged: whether blockLog is kept.
blockIP(ip, duration, logged) ==
  /\ now <= MaxFailureTime
  /\ blockedIPs' = blockedIPs \cup {ip}
  /\ timers' = IF duration > 0
                 THEN timers \cup {[callback |-> "unblock", ip |-> ip, due |-> now + duration]}
                 ELSE timers
  /\ blockLog' = IF logged THEN [blockLog EXCEPT ![ip] = Installed(duration)] ELSE blockLog
  /\ UNCHANGED << now, imageVars, clientVars, loaderVars, cryptoVars, apiVars, limiterVars, ipAttempts, pending, failureLog >>

unblockIP(ip) ==
  /\ blockedIPs' = blockedIPs \ {ip}
  /\ ipAttempts' = Without(ipAttempts, {ip})
  /\ UNCHANGED << now, imageVars, clientVars, loaderVars, cryptoVars, apiVars, limiterVars, timers, pending, failureLog, blockLog >>

\* The next instant of the ban machine's clock: BanTickStep later, or the due
\* time of the next timer if that comes first.
NextInstant ==
  LET dues == {timer.due : timer \in timers} \cap (now + 1 .. now + BanTickStep)
  IN  IF dues = {} THEN now + BanTickStep
      ELSE CHOOSE d \in dues : \A e \in dues : d <= e

\* The clock of the ban machine; a timer fires when it is due, before the
\* clock moves on.
TickBan ==
  /\ NextInstant <= MaxBanTime
  /\ \A timer \in timers : timer.due > now
  /\ now' = NextInstant
  /\ failureLog' = [ip \in IPs |->
                      SelectSeq(failureLog[ip], LAMBDA t : now' - t <= timeWindow)]
  /\ UNCHANGED << imageVars, clientVars, loaderVars, cryptoVars, apiVars, limiterVars, ipAttempts, blockedIPs, timers, pending, blockLog >>

(***************************************************************************)
(* keyAccessRateLimit on GET /get-key/:imageId (middleware/security.js:     *)
(* 52-69): express-rate-limit with windowMs one minute, limit 5 and a      *)
(* keyGenerator.  The library counts the requests of a key in the window   *)
(* that its first request opened and answers 429 above the limit.          *)
(***************************************************************************)
keyAccessWindow == 60
keyAccessLimit == 5

\* At most MaxKeyRequests get-key requests are made, up to MaxLimiterTime.
MaxKeyRequests == 7
MaxLimiterTime == 60

\* The middleware that assign req.user (AuthMiddleware.verifyToken and
\* optionalAuth); verifyImageAccess and verifyKeyAccess do not.
SetsUser == {"verifyToken", "optionalAuth"}

\* req.user?.userId as a middleware of a route's chain reads it, on a
\* request whose token is tokenUser's: set only if a middleware ahead of it
\* in the chain assigned req.user.
UserSeenBy(route, middleware, tokenUser) ==
  LET chain == RouteChain(route)
  IN  IF \E k \in 1..Len(chain), m \in 1..Len(chain) :
            k < m /\ chain[k] \in SetsUser /\ chain[m] = middleware
        THEN tokenUser
        ELSE NoUser

\* keyGenerator(req): `${ip}:${userId}` with req.user?.userId || 'anonymous'
keyGenerator(ip, user) == << ip, IF user = NoUser THEN "anonymous" ELSE user >>

\* The store's increment(key) at this instant: a window that is over is
\* opened anew.
Increment(key) ==
  LET client == IF key \in DOMAIN hits /\ hits[key].resetTime > now THEN hits[key]
                ELSE [totalHits |-> 0, resetTime |-> now + keyAccessWindow]
  IN  [client EXCEPT !.totalHits = @ + 1]

\* GET /get-key/:imageId from ip on behalf of userId, with an access token
\* of userId that verifies: the middleware chain, then the handler.
GetKeyRequest(ip, userId) ==
  /\ Len(keyRequests) < MaxKeyRequests
  /\ LET key == keyGenerator(ip, UserSeenBy("get-key", "keyAccessRateLimit", userId))
         client == Increment(key)
         r == Respond(ip, "get-key", client.totalHits > keyAccessLimit, 200, 200)
         response == [ip |-> ip, statusCode |-> r.statusCode]
     IN  /\ r.listening => (response \notin pending /\ Cardinality(pending) < MaxInFlight)
         /\ pending' = IF r.listening THEN pending \cup {response} ELSE pending
         /\ hits' = IF "keyAccessRateLimit" \in r.consulted
                      THEN [k \in DOMAIN hits \cup {key} |->
                              IF k = key THEN client ELSE hits[k]]
                      ELSE hits
         /\ keyRequests' = Append(keyRequests,
                                  [ip |-> ip, userId |-> userId, time |-> now,
                                   statusCode |-> r.statusCode])
  /\ UNCHANGED << now, imageVars, clientVars, loaderVars, cryptoVars, apiVars, ipAttempts, blockedIPs, timers,
                  failureLog, blockLog >>

\* A minute passes.
TickLimiter ==
  /\ now + keyAccessWindow <= MaxLimiterTime
  /\ now' = now + keyAccessWindow
  /\ UNCHANGED << imageVars, securityVars, clientVars, loaderVars, cryptoVars, apiVars >>

(***************************************************************************)
(* WasmLoader (src/frontend/src/js/wasmLoader.js; the earlier copy in      *)
(* src/unnamed/part_006 has the same loadWasm and unloadWasm): the one     *)
(* loader object that every ImageDecryptor shares.                         *)
(***************************************************************************)
\* this.wasmModule = null; this.loadPromise = null
Null == 0

\* At most MaxLoads module loads are started and MaxLoadCalls loadWasm calls
\* made.
MaxLoads == 3
MaxLoadCalls == 4

\* The _loadWasmModule promises that have not settled.
InFlight == {n \in 1..Len(loads) : loads[n] = "pending"}

\* A loadWasm call: the module it returned at once, or the load whose promise
\* it returned or awaits; inFlight: the loads unsettled when it was made;
\* after: how the last load before it settled, and which load that was.
LoadCall(kind, load, module) ==
  [kind |-> kind, load |-> load, module |-> module, inFlight |-> InFlight,
   after |-> IF lastSettled = Null THEN "none" ELSE loads[lastSettled],
   afterLoad |-> lastSettled]

\* wasmLoader.loadWasm(wasmPath) up to its return or its await: the cached
\* module, the promise of the load in progress, or a new _loadWasmModule
\* promise that the call then awaits.
loadWasm ==
  /\ Len(loadCalls) < MaxLoadCalls
  /\ IF isLoaded /\ wasmModule # Null
       THEN /\ loadCalls' = Append(loadCalls, LoadCall("cached", Null, wasmModule))
            /\ UNCHANGED << wasmModule, isLoaded, isLoading, loadPromise, loads >>
       ELSE IF isLoading /\ loadPromise # Null
       THEN /\ loadCalls' = Append(loadCalls, LoadCall("joined", loadPromise, Null))
            /\ UNCHANGED << wasmModule, isLoaded, isLoading, loadPromise, loads >>
       ELSE /\ Len(loads) < MaxLoads
            /\ isLoading' = TRUE
            /\ loads' = Append(loads, "pending")
            /\ loadPromise' = Len(loads) + 1
            /\ loadCalls' = Append(loadCalls, LoadCall("started", Len(loads) + 1, Null))
            /\ UNCHANGED << wasmModule, isLoaded >>
  /\ unloaded' = FALSE
  /\ UNCHANGED lastSettled
  /\ UNCHANGED << now, imageVars, securityVars, clientVars, cryptoVars, apiVars >>

\* The n-th _loadWasmModule promise settles and the loadWasm call that
\* awaits it resumes: it stores the module and sets isLoaded, or resets
\* isLoading and loadPromise and rethrows.
loadWasmResumes(n, ok) ==
  /\ n \in InFlight
  /\ loads' = [loads EXCEPT ![n] = IF ok THEN "fulfilled" ELSE "rejected"]
  /\ IF ok
       THEN /\ wasmModule' = n
            /\ isLoaded' = TRUE
            /\ UNCHANGED << isLoading, loadPromise >>
       ELSE /\ isLoading' = FALSE
            /\ loadPromise' = Null
            /\ UNCHANGED << wasmModule, isLoaded >>
  /\ lastSettled' = n
  /\ UNCHANGED << loadCalls, unloaded >>
  /\ UNCHANGED << now, imageVars, securityVars, clientVars, cryptoVars, apiVars >>

\* wasmLoader.unloadWasm(), as ImageDecryptor.dispose calls it: what it does
\* to the loader.
unloadWasm ==
  /\ wasmModule' = Null
  /\ isLoaded' = FALSE
  /\ isLoading' = FALSE
  /\ loadPromise' = Null
  /\ unloaded' = TRUE
  /\ lastSettled' = Null
  /\ UNCHANGED << loads, loadCalls >>

\* isWasmLoaded()
isWasmLoaded == isLoaded /\ wasmModule # Null

\* C37: from the return of unloadWasm until loadWasm is next called,
\* isWasmLoaded() is false and wasmModule is null, whether or not a load was
\* in flight when unloadWasm was called; and in every state isLoaded implies
\* that wasmModule is not null.
C37_UnloadedUntilNextLoad ==
  /\ unloaded => (~isWasmLoaded /\ wasmModule = Null)
  /\ isLoaded => wasmModule # Null

\* The second half of C37 alone.
LoadedHasModule == isLoaded => wasmModule # Null

\* A loadWasm call made while a load is in flight starts no load.
StartsNoSecondLoad ==
  \A k \in 1..Len(loadCalls) :
    loadCalls[k].inFlight # {} => loadCalls[k].kind # "started"

\* A loadWasm call made while a load is in flight receives the promise of
\* that load, and so settles as the call that started it does.
JoinsLoadInFlight ==
  \A k \in 1..Len(loadCalls) :
    loadCalls[k].inFlight # {} =>
      (loadCalls[k].kind = "joined" /\ loadCalls[k].inFlight = {loadCalls[k].load})

\* The first loadWasm call after a failed load starts a load.
FreshLoadAfterFailure ==
  \A k \in 1..Len(loadCalls) :
    (loadCalls[k].inFlight = {} /\ loadCalls[k].after = "rejected") =>
      loadCalls[k].kind = "started"

\* Every loadWasm call after a successful load returns its module.
CachedAfterSuccess ==
  \A k \in 1..Len(loadCalls) :
    loadCalls[k].after = "fulfilled" =>
      (loadCalls[k].kind = "cached" /\ loadCalls[k].module = loadCalls[k].afterLoad)

\* C38: loadWasm is single-flight. A call made while a load is in flight
\* starts no second load and settles as that load does; after a failed load
\* the next call starts a fresh load; after a successful load every call
\* returns the cached module.
C38_LoadWasmSingleFlight ==
  /\ StartsNoSecondLoad
  /\ JoinsLoadInFlight
  /\ FreshLoadAfterFailure
  /\ CachedAfterSuccess

(***************************************************************************)
(* The browser side: ErrorHandler (frontend/src/js/errorHandler.js),       *)
(* CryptoOptimized (cryptoOptimized.js) and ImageDecryptor                 *)
(* (imageDecryptor.js).  Times are in milliseconds.                        *)
(*                                                                         *)
(* An error is a record: its class name, its type (AppError only), its     *)
(* message, and the set of lower-cased keywords the message contains, for  *)
(* the message.includes(...) tests of _inferErrorType.  The keywords the   *)
(* source writes in Chinese are spelled zh-<english>.                      *)
(***************************************************************************)
ErrorTypes ==
  { "WASM_LOAD_FAILED", "WASM_INIT_FAILED", "WASM_EXECUTION_FAILED", "WASM_MEMORY_ERROR",
    "DECRYPTION_FAILED", "INVALID_KEY", "INVALID_IV", "CORRUPTED_DATA",
    "NETWORK_ERROR", "TIMEOUT_ERROR", "VALIDATION_FAILED", "UNSUPPORTED_FORMAT",
    "BROWSER_NOT_SUPPORTED", "INSUFFICIENT_MEMORY", "UNKNOWN_ERROR" }

Undefined == "undefined"

\* ErrorTypes.<name>: the member of the enumeration, undefined when the
\* enumeration has no such member.
ErrorType(name) == IF name \in ErrorTypes THEN name ELSE Undefined

\* What an error's originalError refers to: the name, type and message of
\* the wrapped error, or of the primary and the fallback error.
Brief(error) == [name |-> error.name, type |-> error.type, message |-> error.message]
NoBrief == [name |-> "", type |-> "", message |-> ""]
NoOriginal == [error |-> NoBrief, primary |-> NoBrief, fallback |-> NoBrief]
Wrapping(error) == [error |-> Brief(error), primary |-> NoBrief, fallback |-> NoBrief]

NoError ==
  [name |-> "", type |-> "", message |-> "", words |-> {}, originalError |-> NoOriginal]

\* new AppError(message, type, severity, originalError); an undefined type
\* takes the parameter's default, ErrorTypes.UNKNOWN_ERROR.
AppError(message, words, type, originalError) ==
  [name |-> "AppError",
   type |-> IF type = Undefined THEN "UNKNOWN_ERROR" ELSE type,
   message |-> message, words |-> words, originalError |-> originalError]

\* new Error(message)
Error(message, words) ==
  [name |-> "Error", type |-> Undefined, message |-> message, words |-> words,
   originalError |-> NoOriginal]

Includes(error, keywords) == error.words \cap keywords # {}

\* ErrorHandler._inferErrorType(error)
inferErrorType(error) ==
  IF Includes(error, {"wasm", "webassembly"}) THEN
       IF Includes(error, {"load", "zh-load"}) THEN "WASM_LOAD_FAILED"
       ELSE IF Includes(error, {"init", "zh-init"}) THEN "WASM_INIT_FAILED"
       ELSE IF Includes(error, {"memory", "zh-memory"}) THEN "WASM_MEMORY_ERROR"
       ELSE "WASM_EXECUTION_FAILED"
  ELSE IF Includes(error, {"decrypt", "zh-decrypt"}) THEN
       IF Includes(error, {"key", "zh-key"}) THEN "INVALID_KEY"
       ELSE IF Includes(error, {"iv"}) THEN "INVALID_IV"
       ELSE IF Includes(error, {"corrupt", "zh-corrupt"}) THEN "CORRUPTED_DATA"
       ELSE "DECRYPTION_FAILED"
  ELSE IF Includes(error, {"network", "zh-network", "fetch", "request"}) THEN "NETWORK_ERROR"
  ELSE IF Includes(error, {"timeout", "zh-timeout"}) THEN "TIMEOUT_ERROR"
  ELSE IF Includes(error, {"valid", "zh-valid"}) THEN "VALIDATION_FAILED"
  ELSE "UNKNOWN_ERROR"

\* ErrorHandler._normalizeError(error); handleError returns it.
normalizeError(error) ==
  IF error.name = "AppError" THEN error
  ELSE AppError(error.message, error.words, inferErrorType(error),
                Wrapping(error))

noFallbackTypes ==
  { "INVALID_KEY", "INVALID_IV", "BROWSER_NOT_SUPPORTED", "INSUFFICIENT_MEMORY" }

\* A variant of _shouldFallback that never falls back.
shouldFallback_Never(error) == error.type = Undefined

\* ErrorHandler._shouldFallback(error)
shouldFallback(error) ==
  /\ error.type \notin noFallbackTypes
  /\ error.type # "TIMEOUT_ERROR"

\* The error handleWithFallback rejects with when both actions failed.
combinedError(primaryError, fallbackError) ==
  AppError("primary and fallback both failed", {}, "UNKNOWN_ERROR",
           [error |-> NoBrief, primary |-> Brief(primaryError),
            fallback |-> Brief(fallbackError)])

\* What a promise settles to.
Resolved(value) == [status |-> "resolved", value |-> value, error |-> NoError]
Rejected(error) == [status |-> "rejected", value |-> << >>, error |-> error]
Unsettled == [status |-> "pending", value |-> << >>, error |-> NoError]

\* ErrorHandler.handleWithFallback(primaryAction, fallbackAction), where
\* primary is what primaryAction() settles to and fallback what
\* fallbackAction() settles to if it is called: the promise returned, and
\* whether fallbackAction was called.
handleWithFallback(primary, fallback) ==
  IF primary.status = "resolved" THEN [settled |-> primary, fallbackCalled |-> FALSE]
  ELSE LET appError == normalizeError(primary.error)
       IN  IF shouldFallback(appError)
             THEN [settled |-> IF fallback.status = "resolved" THEN fallback
                               ELSE Rejected(combinedError(primary.error, fallback.error)),
                   fallbackCalled |-> TRUE]
             ELSE [settled |-> Rejected(appError), fallbackCalled |-> FALSE]

(***************************************************************************)
(* CryptoOptimized: the CryptoJS decryptor (cryptoOptimized.js)            *)
(***************************************************************************)
\* The 64 KiB chunk of decryptImageProgressive is 4096 cipher blocks; the
\* model keeps the chunk a whole number of blocks and takes 8 of them.
chunkSize == 8 * BlockSize

\* What CryptoJS does with a ciphertext that is not a whole number of blocks
\* is the library's business: it throws or it returns some bytes.
LibraryOutcomes == {"throws", "garbage"}

\* CryptoJS.enc.Base64.parse(str)
Base64Parse(str) == Base64Decode(str)

\* CryptoJS.AES.decrypt({ciphertext}, key, {iv, mode: CBC, padding: Pkcs7})
\* followed by _optimizedWordArrayToUint8Array.  Pkcs7.unpad takes the last
\* byte as the pad length without checking the pad bytes; a length beyond
\* the data leaves a negative sigBytes, which new Uint8Array rejects.
AESDecrypt(ciphertext, key, iv, library) ==
  IF ciphertext = << >> THEN Resolved(<< >>)
  ELSE IF Len(ciphertext) % BlockSize # 0 THEN
         IF library = "throws" THEN Rejected(Error("Malformed data", {}))
         ELSE Resolved([i \in 1..Len(ciphertext) |-> 0])
  ELSE LET plain == CbcDecrypt(key, iv, ciphertext)
           n == plain[Len(plain)]
       IN  IF n > Len(plain)
             THEN Rejected(Error("Invalid typed array length", {"valid"}))
             ELSE Resolved(SubSeq(plain, 1, Len(plain) - n))

\* CryptoOptimized.decryptImage(encryptedData, keyBase64, ivBase64)
CryptoOptimized_decryptImage(encryptedData, keyBase64, ivBase64, library) ==
  LET key == Base64Parse(keyBase64)
      iv == Base64Parse(ivBase64)
  IN  IF Len(key) # 32
        THEN Rejected(Error("decrypt failed: key must be 32 bytes", {"zh-decrypt", "zh-key"}))
      ELSE IF Len(iv) # 16
        THEN Rejected(Error("decrypt failed: IV must be 16 bytes", {"zh-decrypt", "iv"}))
      ELSE LET decrypted == AESDecrypt(encryptedData, key, iv, library)
           IN  IF decrypted.status = "resolved" THEN decrypted
               ELSE Rejected(Error("decrypt failed", {"zh-decrypt"} \cup decrypted.error.words))

\* Whether that call reaches CryptoJS.AES.decrypt.
ReachesCipher(keyBase64, ivBase64) ==
  Len(Base64Parse(keyBase64)) = 32 /\ Len(Base64Parse(ivBase64)) = 16

\* A progress value, as a fraction.
Ratio(num, den) == [num |-> num, den |-> den]

Min(a, b) == IF a <= b THEN a ELSE b

\* CryptoOptimized.decryptImageProgressive from offset i on: the promise it
\* settles to, the values it passes to progressCallback, and the chunks it
\* hands to decryptImage.
RECURSIVE decryptImageProgressiveFrom(_, _, _, _, _)
decryptImageProgressiveFrom(i, encryptedData, keyBase64, ivBase64, library) ==
  IF i >= Len(encryptedData)
    THEN [settled |-> Resolved(<< >>), progress |-> << >>, chunks |-> << >>]
  ELSE LET chunk == Slice(encryptedData, i + 1, Min(i + chunkSize, Len(encryptedData)))
           decryptedChunk == CryptoOptimized_decryptImage(chunk, keyBase64, ivBase64, library)
       IN  IF decryptedChunk.status = "rejected"
             THEN [settled |-> decryptedChunk, progress |-> << >>, chunks |-> << Len(chunk) >>]
           ELSE LET rest == decryptImageProgressiveFrom(i + chunkSize, encryptedData,
                                                        keyBase64, ivBase64, library)
                IN  [settled |-> IF rest.settled.status = "rejected" THEN rest.settled
                                 ELSE Resolved(decryptedChunk.value \o rest.settled.value),
                     progress |-> << Ratio(i + chunkSize, Len(encryptedData)) >> \o rest.progress,
                     chunks |-> << Len(chunk) >> \o rest.chunks]

\* CryptoOptimized.decryptImageProgressive(encryptedData, keyBase64, ivBase64, progressCallback)
CryptoOptimized_decryptImageProgressive(encryptedData, keyBase64, ivBase64, library) ==
  decryptImageProgressiveFrom(0, encryptedData, keyBase64, ivBase64, library)

(***************************************************************************)
(* ImageDecryptor (imageDecryptor.js)                                      *)
(***************************************************************************)
\* getConfig('decryption.timeout', 30000), 'decryption.minResultSize' and
\* 'decryption.maxResultSize' with their defaults.
decryptionTimeout == 30000
minResultSize == 100
maxResultSize == 50 * 1024 * 1024

PngSignature == << 137, 80, 78, 71, 13, 10, 26, 10 >>

\* The images the browser is handed: one shorter than minResultSize, one of
\* a single chunk, one of two chunks.
ClientPlaintexts ==
  { << 137, 80, 78, 71, 13 >>,
    PngSignature \o [i \in 1..92 |-> (7 * i) % 256],
    PngSignature \o [i \in 1..122 |-> (11 * i) % 256] }

\* The key and the IV the server issued for them.
ClientDraw == CHOOSE d \in RandomDraws : d.key[1] = 1

ClientKey == Base64Encode(ClientDraw.key)
ClientIV == Base64Encode(ClientDraw.iv)

Ciphertexts == {encryptImage(p, ClientDraw.key, ClientDraw.iv).data : p \in ClientPlaintexts}

LongCiphertext == CHOOSE c \in Ciphertexts : Len(c) > chunkSize

\* The arguments of one decryptImage call: what the server sent, and the
\* malformed ones (a 16-byte key, a 32-byte IV, a ciphertext cut short by
\* one byte, an empty ciphertext, an empty key string).
DecryptInputs ==
  { [encryptedData |-> c, keyBase64 |-> ClientKey, ivBase64 |-> ClientIV] : c \in Ciphertexts }
  \cup
  { [encryptedData |-> LongCiphertext, keyBase64 |-> ClientIV, ivBase64 |-> ClientIV],
    [encryptedData |-> LongCiphertext, keyBase64 |-> ClientKey, ivBase64 |-> ClientKey],
    [encryptedData |-> SubSeq(LongCiphertext, 1, Len(LongCiphertext) - 1),
     keyBase64 |-> ClientKey, ivBase64 |-> ClientIV],
    [encryptedData |-> << >>, keyBase64 |-> ClientKey, ivBase64 |-> ClientIV],
    [encryptedData |-> LongCiphertext, keyBase64 |-> << >>, ivBase64 |-> ClientIV] }

NoInput == [encryptedData |-> << >>, keyBase64 |-> << >>, ivBase64 |-> << >>]

\* options.timeout: absent (the default) or supplied.
Timeouts == {decryptionTimeout, 10000}

\* The browser's clock advances ClockStep ms at a time while a backend is
\* at work, up to MaxElapsed ms after the call.
ClockStep == 10000
MaxElapsed == 40000

\* atob(str): the decoded bytes; it throws on a string that is not base64.
atobOk(str) == Len(str) % 4 = 0 /\ \A i \in 1..Len(str) : str[i] \in 0..B64Pad
atob(str) == Base64Decode(str)

\* ImageDecryptor._validateDecryptionInputs: the error it throws, or NoError.
\* ErrorTypes has no member INVALID_INPUT.
validateDecryptionInputs(encryptedData, key64, iv64) ==
  LET InvalidInput(message, words) ==
        AppError(message, words, ErrorType("INVALID_INPUT"), NoOriginal)
  IN  IF Len(encryptedData) = 0 THEN InvalidInput("encrypted data is empty", {})
      ELSE IF Len(key64) = 0 THEN InvalidInput("key is empty", {"zh-key"})
      ELSE IF Len(iv64) = 0 THEN InvalidInput("IV is empty", {"iv"})
      ELSE IF ~atobOk(key64) \/ Len(atob(key64)) # 32
        THEN InvalidInput("key base64 format invalid", {"zh-key"})
      ELSE IF ~atobOk(iv64) \/ Len(atob(iv64)) # 16
        THEN InvalidInput("IV base64 format invalid", {"iv"})
      ELSE IF Len(encryptedData) % 16 # 0
        THEN InvalidInput("encrypted data length must be a multiple of 16", {})
      ELSE NoError

\* The memoised results of the pure calls above, per input.
Validations ==
  [in \in DecryptInputs |->
     validateDecryptionInputs(in.encryptedData, in.keyBase64, in.ivBase64)]

WholeBuffer ==
  [in \in DecryptInputs, library \in LibraryOutcomes |->
     CryptoOptimized_decryptImage(in.encryptedData, in.keyBase64, in.ivBase64, library)]

Progressive ==
  [in \in DecryptInputs, library \in LibraryOutcomes |->
     CryptoOptimized_decryptImageProgressive(in.encryptedData, in.keyBase64,
                                             in.ivBase64, library)]

\* The accelerated module is compiled from Rust sources outside this
\* repository's JavaScript: what decrypt_image / decrypt_image_optimized and
\* verify_decrypted_image do is an input of the model.  The module returns
\* the plaintext, returns an empty array, or throws (a trap, or an error
\* whose message mentions a timeout).
WasmOutcomes == {"plaintext", "empty", "throws", "timeout"}
WasmVerdicts == {"valid", "invalid", "throws"}

\* The error the module throws.
WasmError(wasm) ==
  IF wasm = "timeout" THEN Error("operation timeout", {"timeout"})
  ELSE Error("unreachable executed", {})

\* The plaintext a correct AES-256-CBC decryption of a validated input gives.
WasmPlaintext(in) == WholeBuffer[in, "throws"].value

\* ImageDecryptor.verifyDecryptedImage(decryptedData).isValid, when the
\* module (if loaded) answers verdict.
verifyDecryptedImage(decryptedData, verdict) ==
  IF wasmDecryptor /\ verdict # "throws" THEN verdict = "valid"
  ELSE /\ Len(decryptedData) >= minResultSize
       /\ Len(decryptedData) <= maxResultSize

\* The call record of an idle decryptor.
Idle ==
  [pc |-> "idle", in |-> NoInput, progressCallback |-> FALSE,
   timeout |-> decryptionTimeout, primaryError |-> NoError, fallbackError |-> NoError]

\* A call of a backend's cipher: which backend, and the lengths of the
\* ciphertext, the key and the IV it was handed.
CipherCall(backend, encryptedData, key64, iv64) ==
  [backend |-> backend, dataLength |-> Len(encryptedData),
   keyLength |-> Len(Base64Parse(key64)), ivLength |-> Len(Base64Parse(iv64))]

\* handleWithFallback's catch of primaryAction's error in call c: the
\* fallback action is started, or the promise is rejected.
Caught(c, error) ==
  LET appError == normalizeError(error)
  IN  IF shouldFallback(appError)
        THEN [call |-> [c EXCEPT !.pc = "fallback", !.primaryError = error],
              started |-> << "primary", "fallback" >>,
              outcome |-> Unsettled]
        ELSE [call |-> [c EXCEPT !.pc = "settled", !.primaryError = error],
              started |-> << "primary" >>,
              outcome |-> Rejected(appError)]

\* ImageDecryptor.decryptImage(encryptedData, keyBase64, ivBase64, options)
\* up to its first suspension: the argument check, then the primary action
\* up to the module's decrypt call.  options.timeout is read and not used.
ImageDecryptor_decryptImage(in, progressCallback, timeout) ==
  /\ call.pc \in {"idle", "settled"}
  /\ elapsed' = 0
  /\ LET c == [Idle EXCEPT !.in = in, !.progressCallback = progressCallback,
                           !.timeout = timeout]
         notInitialized == AppError("WASM decryptor not initialized",
                                    {"wasm", "zh-decrypt", "zh-init"},
                                    ErrorType("WASM_INIT_FAILED"), NoOriginal)
         caught == Caught(c, IF ~wasmDecryptor THEN notInitialized ELSE Validations[in])
     IN  IF Len(in.keyBase64) = 0 \/ Len(in.ivBase64) = 0
           THEN /\ call' = [c EXCEPT !.pc = "settled"]
                /\ outcome' = Rejected(AppError("missing decrypt arguments", {"zh-decrypt"},
                                                ErrorType("VALIDATION_FAILED"), NoOriginal))
                /\ started' = << >> /\ progress' = << >> /\ cipherCalls' = << >>
         ELSE IF ~wasmDecryptor \/ Validations[in] # NoError
           THEN /\ call' = caught.call
                /\ outcome' = caught.outcome
                /\ started' = caught.started
                /\ progress' = << >> /\ cipherCalls' = << >>
         ELSE /\ call' = [c EXCEPT !.pc = "primary"]
              /\ outcome' = Unsettled
              /\ started' = << "primary" >>
              /\ progress' = IF progressCallback THEN << Ratio(0, 1) >> ELSE << >>
              /\ cipherCalls' =
                   << CipherCall("wasm", in.encryptedData, in.keyBase64, in.ivBase64) >>
  /\ UNCHANGED << wasmDecryptor, initResult, handled, verified >>
  /\ UNCHANGED << now, imageVars, securityVars, cryptoVars, apiVars, loaderVars >>

\* The module's decrypt call returns or throws, and the primary action runs
\* to its end: _decryptWithWasm / _decryptWithWasmProgressive, the empty
\* check and the verification of the result.
WasmReturns(wasm, verdict) ==
  /\ call.pc = "primary"
  /\ LET result == IF wasm = "plaintext" THEN WasmPlaintext(call.in) ELSE << >>
         thrown == WasmError(wasm)
         error ==
           IF wasm \in {"throws", "timeout"}
             THEN AppError("WASM decrypt failed", {"wasm", "zh-decrypt"} \cup thrown.words,
                           ErrorType("WASM_EXECUTION_FAILED"), Wrapping(thrown))
           ELSE IF Len(result) = 0
             THEN AppError("Decryption result is empty", {"decrypt"},
                           ErrorType("DECRYPTION_FAILED"), NoOriginal)
           ELSE IF ~verifyDecryptedImage(result, verdict)
             THEN AppError("decrypt result failed validation",
                           {"zh-decrypt", "zh-valid", "zh-key", "zh-corrupt"},
                           ErrorType("VALIDATION_FAILED"), NoOriginal)
           ELSE NoError
         caught == Caught(call, error)
     IN  /\ progress' = IF call.progressCallback /\ wasm \notin {"throws", "timeout"}
                          THEN Append(progress, Ratio(100, 1))
                          ELSE progress
         /\ IF error = NoError
              THEN /\ call' = [call EXCEPT !.pc = "settled"]
                   /\ outcome' = Resolved(result)
                   /\ UNCHANGED started
              ELSE /\ call' = caught.call
                   /\ outcome' = caught.outcome
                   /\ started' = caught.started
  /\ UNCHANGED << wasmDecryptor, initResult, cipherCalls, elapsed, handled, verified >>
  /\ UNCHANGED << now, imageVars, securityVars, cryptoVars, apiVars, loaderVars >>

\* The fallback action runs to its end (useOptimizedCrypto is always true:
\* the decryptor is the CryptoOptimized instance), and handleWithFallback
\* settles the promise.
FallbackReturns(library, verdict) ==
  /\ call.pc = "fallback"
  /\ LET in == call.in
         run == IF call.progressCallback THEN Progressive[in, library]
                ELSE [settled |-> WholeBuffer[in, library], progress |-> << >>,
                      chunks |-> << Len(in.encryptedData) >>]
         fallbackError ==
           IF run.settled.status = "rejected" THEN run.settled.error
           ELSE IF ~verifyDecryptedImage(run.settled.value, verdict)
             THEN AppError("fallback decrypt result failed validation",
                           {"zh-decrypt", "zh-valid"},
                           ErrorType("VALIDATION_FAILED"), NoOriginal)
           ELSE NoError
     IN  /\ progress' = progress \o run.progress
         /\ cipherCalls' =
              IF ReachesCipher(in.keyBase64, in.ivBase64)
                THEN cipherCalls \o
                       [k \in 1..Len(run.chunks) |->
                          [backend |-> "cryptojs", dataLength |-> run.chunks[k],
                           keyLength |-> 32, ivLength |-> 16]]
                ELSE cipherCalls
         /\ call' = [call EXCEPT !.pc = "settled", !.fallbackError = fallbackError]
         /\ outcome' = IF fallbackError = NoError THEN run.settled
                       ELSE Rejected(combinedError(call.primaryError, fallbackError))
  /\ UNCHANGED << wasmDecryptor, initResult, started, elapsed, handled, verified >>
  /\ UNCHANGED << now, imageVars, securityVars, cryptoVars, apiVars, loaderVars >>

\* Time passes while a backend is at work.
Elapse ==
  /\ call.pc \in {"primary", "fallback"}
  /\ elapsed + ClockStep <= MaxElapsed
  /\ elapsed' = elapsed + ClockStep
  /\ UNCHANGED << wasmDecryptor, initResult, call, progress, cipherCalls, started,
                  outcome, handled, verified >>
  /\ UNCHANGED << now, imageVars, securityVars, cryptoVars, apiVars, loaderVars >>

\* options.forceMode: null, 'wasm' or 'fallback'.
ForceModes == {"null", "wasm", "fallback"}

\* How ImageDecryptor._initializeWasm goes: wasmLoader.loadWasm rejects, the
\* module's constructor throws, set_chunk_size throws (called on devices of
\* at most 4 GB, after the decryptor is assigned), or all succeed.
InitOutcomes == {"ok", "loadFails", "constructFails", "setChunkSizeFails"}

\* A variant of initialize whose forced 'wasm' mode degrades like the
\* automatic mode.
initialize_ForcedDegrades(forceMode, preferWasm, wasmSupported, init) ==
  /\ LET attempted == forceMode # "fallback" /\ wasmSupported
                        /\ (forceMode = "wasm" \/ preferWasm)
         failed == attempted /\ init # "ok"
     IN  /\ wasmDecryptor' = IF attempted /\ init \in {"ok", "setChunkSizeFails"}
                               THEN TRUE ELSE wasmDecryptor
         /\ initResult' =
              [forceMode |-> forceMode, failed |-> failed, status |-> "resolved",
               mode |-> IF attempted /\ ~failed THEN "wasm" ELSE "fallback"]
  /\ UNCHANGED << call, progress, cipherCalls, started, outcome, elapsed, handled, verified >>
  /\ UNCHANGED << now, imageVars, securityVars, cryptoVars, apiVars, loaderVars >>

\* ImageDecryptor.initialize({preferWasm, forceMode}) in an environment that
\* supports WebAssembly or not.
initialize(forceMode, preferWasm, wasmSupported, init) ==
  /\ LET attempted == forceMode # "fallback" /\ wasmSupported
                        /\ (forceMode = "wasm" \/ preferWasm)
         failed == attempted /\ init # "ok"
     IN  /\ wasmDecryptor' = IF attempted /\ init \in {"ok", "setChunkSizeFails"}
                               THEN TRUE ELSE wasmDecryptor
         /\ initResult' =
              IF forceMode = "fallback"
                THEN [forceMode |-> forceMode, failed |-> FALSE,
                      status |-> "resolved", mode |-> "fallback"]
              ELSE IF forceMode = "wasm"
                THEN IF ~wasmSupported \/ failed
                       THEN [forceMode |-> forceMode, failed |-> failed,
                             status |-> "rejected", mode |-> "none"]
                       ELSE [forceMode |-> forceMode, failed |-> FALSE,
                             status |-> "resolved", mode |-> "wasm"]
              ELSE [forceMode |-> forceMode, failed |-> failed, status |-> "resolved",
                    mode |-> IF attempted /\ ~failed THEN "wasm" ELSE "fallback"]
  /\ UNCHANGED << call, progress, cipherCalls, started, outcome, elapsed, handled, verified >>
  /\ UNCHANGED << now, imageVars, securityVars, cryptoVars, apiVars, loaderVars >>

\* ImageDecryptor.dispose()
dispose ==
  /\ wasmDecryptor' = FALSE
  /\ unloadWasm
  /\ UNCHANGED << initResult, call, progress, cipherCalls, started, outcome, elapsed,
                  handled, verified >>
  /\ UNCHANGED << now, imageVars, securityVars, cryptoVars, apiVars >>

\* The errors a primary action may throw: an Error whose message holds any
\* of these keywords, or an AppError of any type.
MessageWords == {"wasm", "zh-decrypt", "timeout", "zh-timeout", "request", "zh-key"}

ThrownErrors ==
  {Error("thrown", words) : words \in SUBSET MessageWords}
  \cup {AppError("thrown", {}, type, NoOriginal) : type \in ErrorTypes}

PrimaryOutcomes == {Resolved(<< 1 >>)} \cup {Rejected(e) : e \in ThrownErrors}

FallbackOutcomes ==
  {Resolved(<< 2 >>), Rejected(Error("fallback thrown", {})),
   Rejected(AppError("fallback thrown", {}, "TIMEOUT_ERROR", NoOriginal))}

NotHandled ==
  [primary |-> Unsettled, fallback |-> Unsettled, settled |-> Unsettled,
   fallbackCalled |-> FALSE]

\* globalErrorHandler.handleWithFallback(primaryAction, fallbackAction) for
\* any two actions.
HandleWithFallback(primary, fallback) ==
  /\ LET h == handleWithFallback(primary, fallback)
     IN  handled' = [primary |-> primary,
                     fallback |-> IF h.fallbackCalled THEN fallback ELSE Unsettled,
                     settled |-> h.settled, fallbackCalled |-> h.fallbackCalled]
  /\ UNCHANGED << wasmDecryptor, initResult, call, progress, cipherCalls, started,
                  outcome, elapsed, verified >>
  /\ UNCHANGED << now, imageVars, securityVars, cryptoVars, apiVars, loaderVars >>

\* The buffers handed to verifyDecryptedImage: a magic number (PNG, JPEG,
\* none) followed by zero bytes.
Zeros(n) == [i \in 1..n |-> 0]

VerifyLengths == {8, 16, 99, 100, 101}

VerifyBuffers ==
  {magic \o Zeros(n - Len(magic)) :
     magic \in {PngSignature, << 255, 216, 255 >>, << >>}, n \in VerifyLengths}

NotVerified == [decryptedData |-> << >>, wasmLoaded |-> FALSE, isValid |-> FALSE]

\* imageDecryptor.verifyDecryptedImage(decryptedData)
VerifyDecryptedImage(decryptedData, verdict) ==
  /\ verified' = [decryptedData |-> decryptedData, wasmLoaded |-> wasmDecryptor,
                  isValid |-> verifyDecryptedImage(decryptedData, verdict)]
  /\ UNCHANGED << wasmDecryptor, initResult, call, progress, cipherCalls, started,
                  outcome, elapsed, handled >>
  /\ UNCHANGED << now, imageVars, securityVars, cryptoVars, apiVars, loaderVars >>

InitClient ==
  /\ wasmDecryptor = FALSE
  /\ initResult = [forceMode |-> "null", failed |-> FALSE, status |-> "none", mode |-> "none"]
  /\ call = Idle
  /\ progress = << >>
  /\ cipherCalls = << >>
  /\ started = << >>
  /\ outcome = Unsettled
  /\ elapsed = 0
  /\ handled = NotHandled
  /\ verified = NotVerified

(***************************************************************************)
(* The two decrypt paths side by side, as FunctionalityTester runs them    *)
(* (src/unnamed/part_008): ImageDecryptor._decryptWithWasm and             *)
(* CryptoFallback.decryptImage (src/unnamed/part_005) on the same input.   *)
(***************************************************************************)
\* CryptoFallback._validateDecryptionInputs: the error it throws, or NoError.
CryptoFallback_validateDecryptionInputs(encryptedData, key64, iv64) ==
  IF Len(encryptedData) = 0 THEN Error("encrypted data is empty", {})
  ELSE IF Len(key64) = 0 THEN Error("key is empty", {"zh-key"})
  ELSE IF Len(iv64) = 0 THEN Error("IV is empty", {"iv"})
  ELSE IF ~atobOk(key64) \/ Len(atob(key64)) # 32
    THEN Error("key base64 format invalid", {"zh-key"})
  ELSE IF ~atobOk(iv64) \/ Len(atob(iv64)) # 16
    THEN Error("IV base64 format invalid", {"iv"})
  ELSE IF Len(encryptedData) % 16 # 0
    THEN Error("encrypted data length must be a multiple of 16", {})
  ELSE NoError

\* CryptoFallback.decryptImage(encryptedData, keyBase64, ivBase64): a
\* decrypted WordArray of no bytes is thrown as an empty result.
CryptoFallback_decryptImage(encryptedData, keyBase64, ivBase64, library) ==
  LET invalid == CryptoFallback_validateDecryptionInputs(encryptedData, keyBase64, ivBase64)
      key == Base64Parse(keyBase64)
      iv == Base64Parse(ivBase64)
      Failed(words) == Rejected(Error("CryptoJS decrypt failed", {"zh-decrypt"} \cup words))
  IN  IF invalid # NoError THEN Rejected(invalid)
      ELSE IF Len(key) # 32 THEN Failed({"zh-key"})
      ELSE IF Len(iv) # 16 THEN Failed({"iv"})
      ELSE LET decrypted == AESDecrypt(encryptedData, key, iv, library)
           IN  IF decrypted.status = "rejected" THEN Failed(decrypted.error.words)
               ELSE IF Len(decrypted.value) = 0 THEN Failed({"zh-valid"})
               ELSE decrypted

\* decrypt_image of the accelerated module.  Its Rust source is not among
\* the JavaScript of the repository; it is taken to be AES-256-CBC with
\* PKCS#7 padding on the decoded key and IV, as ImageCrypto.decryptImage is.
decrypt_image(encryptedData, keyBase64, ivBase64) ==
  LET r == decryptImage(encryptedData, atob(keyBase64), atob(ivBase64))
  IN  IF r.ok THEN Resolved(r.data) ELSE Rejected(Error("decryption failed", {"decrypt"}))

\* ImageDecryptor._decryptWithWasm(encryptedData, keyBase64, ivBase64) on a
\* decryptor whose module is loaded or not.  `!result` is false of every
\* array, the empty one included.
decryptWithWasm(loaded, encryptedData, keyBase64, ivBase64) ==
  LET invalid == validateDecryptionInputs(encryptedData, keyBase64, ivBase64)
  IN  IF ~loaded
        THEN Rejected(AppError("WASM decryptor not initialized", {"wasm", "zh-decrypt", "zh-init"},
                               ErrorType("WASM_NOT_INITIALIZED"), NoOriginal))
      ELSE IF invalid # NoError THEN Rejected(invalid)
      ELSE LET result == decrypt_image(encryptedData, keyBase64, ivBase64)
           IN  IF result.status = "rejected"
                 THEN Rejected(AppError("WASM decrypt failed", {"wasm", "zh-decrypt"},
                                        ErrorType("WASM_EXECUTION_FAILED"),
                                        Wrapping(result.error)))
               ELSE result

\* generateTestData: random bytes and their encryption under the test key.
TestData(data) ==
  [data |-> data, encrypted |-> encryptImage(data, ClientDraw.key, ClientDraw.iv).data,
   key |-> ClientKey, iv |-> ClientIV]

ShortTestData == TestData(<< 137, 80, 78, 71, 13 >>)

\* The base64 symbol of a character outside the alphabet ('!').
NotBase64 == 99

\* The cases of testDecryptionConsistency (here of 5 and of 100 bytes, and
\* the empty buffer) followed by those of testErrorHandling, in the order
\* the loops run them.
TestCases ==
  << [name |-> "small data"] @@ ShortTestData,
     [name |-> "medium data"] @@ TestData(PngSignature \o [i \in 1..92 |-> (7 * i) % 256]),
     [name |-> "empty data"] @@ TestData(<< >>),
     [name |-> "invalid key length"] @@ [ShortTestData EXCEPT !.key = SubSeq(@, 1, 20)],
     [name |-> "invalid IV length"] @@ [ShortTestData EXCEPT !.iv = SubSeq(@, 1, 20)],
     [name |-> "empty encrypted data"] @@ [ShortTestData EXCEPT !.encrypted = << >>],
     [name |-> "corrupted data length"] @@
        [ShortTestData EXCEPT !.encrypted = [i \in 1..15 |-> 1]],
     [name |-> "empty key"] @@ [ShortTestData EXCEPT !.key = << >>],
     [name |-> "empty IV"] @@ [ShortTestData EXCEPT !.iv = << >>],
     [name |-> "invalid base64 key"] @@ [ShortTestData EXCEPT !.key[3] = NotBase64],
     [name |-> "invalid base64 IV"] @@ [ShortTestData EXCEPT !.iv[3] = NotBase64] >>

\* What the two paths settle to on each case.
TestOutcomes ==
  Tabulated([k \in 1..Len(TestCases), loaded \in BOOLEAN |->
    LET tc == TestCases[k]
    IN  [wasm |-> decryptWithWasm(loaded, tc.encrypted, tc.key, tc.iv),
         cryptojs |-> CryptoFallback_decryptImage(tc.encrypted, tc.key, tc.iv, "throws")]])

\* One turn of the loop: both paths on the next case, and results.push.
RunTest ==
  /\ Len(testResults) < Len(TestCases)
  /\ LET k == Len(testResults) + 1
         tc == TestCases[k]
         o == TestOutcomes[k, wasmDecryptor]
         wasmSuccess == o.wasm.status = "resolved"
         cryptojsSuccess == o.cryptojs.status = "resolved"
     IN  testResults' = Append(testResults,
           [testCase |-> tc.name,
            wasmLoaded |-> wasmDecryptor,
            wasmSuccess |-> wasmSuccess,
            cryptojsSuccess |-> cryptojsSuccess,
            isConsistent |-> wasmSuccess /\ cryptojsSuccess
                             /\ o.wasm.value = o.cryptojs.value,
            isOriginalMatch |-> wasmSuccess /\ o.wasm.value = tc.data])
  /\ UNCHANGED << now, imageVars, securityVars, clientVars, loaderVars, cryptoVars, oneTimeCall,
                  apiCall, keyCalls, keyResults >>

(***************************************************************************)
(* ImageCrypto called directly (utils/crypto.js): the envelope and the     *)
(* cipher on keys, IVs, secrets and buffers of the caller's choice         *)
(***************************************************************************)
\* generateKey() and generateIV() values, and the wrap IVs randomBytes gives.
CryptoKeys == {d.key : d \in RandomDraws}
CryptoIVs == {d.iv : d \in RandomDraws}
WrapIVs == {d.keyIV : d \in RandomDraws}

\* The masterKey argument, as utf8 bytes: the default, another, the empty
\* string.
MasterSecrets == {masterKey, << 115, 51, 99, 114, 51, 116 >>, << >>}

\* The arguments of one encryptKeyAndIV call with the wrap IVs it draws.
WrapInputs ==
  [key : CryptoKeys, iv : CryptoIVs, masterKey : MasterSecrets,
   keyIV : WrapIVs, ivIV : WrapIVs]

\* encryptKeyAndIV and decryptKeyAndIV evaluated once per input.
Envelopes ==
  Tabulated([w \in WrapInputs |->
               encryptKeyAndIV(w.key, w.iv, w.masterKey, w.keyIV, w.ivIV)])

Unwraps ==
  Tabulated([w \in WrapInputs, secret \in MasterSecrets |->
               decryptKeyAndIV(Envelopes[w].encryptedKey, Envelopes[w].encryptedIV, secret)])

NoEnvelope ==
  [called |-> FALSE, key |-> << >>, iv |-> << >>, masterKey |-> << >>,
   keyIV |-> << >>, ivIV |-> << >>, encryptedKey |-> << >>, encryptedIV |-> << >>]

NotUnwrapped == [called |-> FALSE, masterKey |-> << >>, ok |-> FALSE, key |-> << >>, iv |-> << >>]

\* imageCrypto.encryptKeyAndIV(key, iv, masterKey)
EncryptKeyAndIV(w) ==
  /\ envelopeCall' =
       [called |-> TRUE, key |-> w.key, iv |-> w.iv, masterKey |-> w.masterKey,
        keyIV |-> w.keyIV, ivIV |-> w.ivIV,
        encryptedKey |-> Envelopes[w].encryptedKey,
        encryptedIV |-> Envelopes[w].encryptedIV]
  /\ unwrapCall' = NotUnwrapped
  /\ UNCHANGED << encryptCall, decryptCall >>
  /\ UNCHANGED << now, imageVars, securityVars, clientVars, loaderVars, apiVars >>

\* imageCrypto.decryptKeyAndIV(encryptedKey, encryptedIV, masterKey) on the
\* envelope last returned; it throws where r.ok is false.
DecryptKeyAndIV(secret) ==
  /\ envelopeCall.called
  /\ LET w == [key |-> envelopeCall.key, iv |-> envelopeCall.iv,
               masterKey |-> envelopeCall.masterKey,
               keyIV |-> envelopeCall.keyIV, ivIV |-> envelopeCall.ivIV]
         r == Unwraps[w, secret]
     IN  unwrapCall' =
           [called |-> TRUE, masterKey |-> secret, ok |-> r.ok,
            key |-> IF r.ok THEN r.key ELSE << >>,
            iv |-> IF r.ok THEN r.iv ELSE << >>]
  /\ UNCHANGED << envelopeCall, encryptCall, decryptCall >>
  /\ UNCHANGED << now, imageVars, securityVars, clientVars, loaderVars, apiVars >>

\* The image buffers handed to encryptImage: every length around the block
\* size (the empty buffer included), and buffers that end like padding.
Bytes(n) == [i \in 1..n |-> ((37 * i) + 11) % 256]

CipherLengths == {0, 1, 15, 16, 17, 32}

CipherPlaintexts ==
  {Bytes(n) : n \in CipherLengths} \cup {<< 1 >>, [i \in 1..BlockSize |-> BlockSize]}

Encryptions ==
  Tabulated([p \in CipherPlaintexts, key \in CryptoKeys, iv \in CryptoIVs |->
               encryptImage(p, key, iv)])

Decryptions ==
  Tabulated([c \in {Encryptions[x].data : x \in DOMAIN Encryptions},
             key \in CryptoKeys, iv \in CryptoIVs |-> decryptImage(c, key, iv)])

NotEncrypted ==
  [called |-> FALSE, imageBuffer |-> << >>, key |-> << >>, iv |-> << >>, data |-> << >>]

NotDecrypted == [called |-> FALSE, key |-> << >>, iv |-> << >>, ok |-> FALSE, data |-> << >>]

\* imageCrypto.encryptImage(imageBuffer, key, iv)
EncryptImage(imageBuffer, key, iv) ==
  /\ encryptCall' = [called |-> TRUE, imageBuffer |-> imageBuffer, key |-> key, iv |-> iv,
                     data |-> Encryptions[imageBuffer, key, iv].data]
  /\ decryptCall' = NotDecrypted
  /\ UNCHANGED << envelopeCall, unwrapCall >>
  /\ UNCHANGED << now, imageVars, securityVars, clientVars, loaderVars, apiVars >>

\* imageCrypto.decryptImage(encryptedBuffer, key, iv) on the ciphertext last
\* returned; it throws where r.ok is false.
DecryptImage(key, iv) ==
  /\ encryptCall.called
  /\ LET r == Decryptions[encryptCall.data, key, iv]
     IN  decryptCall' = [called |-> TRUE, key |-> key, iv |-> iv, ok |-> r.ok,
                         data |-> IF r.ok THEN r.data ELSE << >>]
  /\ UNCHANGED << envelopeCall, unwrapCall, encryptCall >>
  /\ UNCHANGED << now, imageVars, securityVars, clientVars, loaderVars, apiVars >>

InitCrypto ==
  /\ envelopeCall = NoEnvelope
  /\ unwrapCall = NotUnwrapped
  /\ encryptCall = NotEncrypted
  /\ decryptCall = NotDecrypted

(***************************************************************************)
(* ApiClient (src/unnamed/part_003) against the routes and the status each *)
(* ImageController handler answers with.                                   *)
(***************************************************************************)
\* this.retryCount
retryCount == 3

ApiOps == {"getDecryptionKey", "verifyKeyAccess", "downloadEncryptedImage",
           "deleteImage", "generateOneTimeToken"}

ApiRoute(op) ==
  CASE op = "getDecryptionKey" -> "get-key"
    [] op = "verifyKeyAccess" -> "verify-key"
    [] op = "downloadEncryptedImage" -> "download-image"
    [] op = "deleteImage" -> "delete-image"
    [] op = "generateOneTimeToken" -> "one-time-token"

\* downloadEncryptedImage calls _requestRaw; the others go through _request.
UsesRequest(op) == op # "downloadEncryptedImage"

\* The status of the handler's answer: 200, or what its error path sets when
\* the service refuses the caller (token, scope or owner).  deleteImage
\* answers every exception of the service with 500.
ControllerStatus(route, denied) ==
  IF ~denied THEN 200
  ELSE IF route = "delete-image" THEN 500
  ELSE 403

NoApiCall ==
  [op |-> "", authStatus |-> 200, denied |-> FALSE, retryCount |-> 0,
   requests |-> 0, outcome |-> "none", statusCode |-> 0]

\* A call of an ApiClient method: authStatus is what the credentials earn
\* from the route's authentication middleware, denied whether the service
\* refuses the caller.
ApiCall(op, authStatus, denied) ==
  /\ apiCall.outcome # "pending"
  /\ apiCall' = [op |-> op, authStatus |-> authStatus, denied |-> denied,
                 retryCount |-> retryCount, requests |-> 0,
                 outcome |-> "pending", statusCode |-> 0]
  /\ UNCHANGED << now, imageVars, securityVars, clientVars, loaderVars, cryptoVars, oneTimeCall,
                  keyCalls, keyResults, testResults >>

\* One fetch of the call in progress, answered by the route, and what
\* _request (or downloadEncryptedImage) does with the response.
ApiRequest(ip, limited) ==
  /\ apiCall.outcome = "pending"
  /\ LET route == ApiRoute(apiCall.op)
         r == Respond(ip, route, limited, apiCall.authStatus,
                      ControllerStatus(route, apiCall.denied))
         response == [ip |-> ip, statusCode |-> r.statusCode]
         sent == [apiCall EXCEPT !.requests = @ + 1, !.statusCode = r.statusCode]
     IN  /\ r.listening => (response \notin pending /\ Cardinality(pending) < MaxInFlight)
         /\ pending' = IF r.listening THEN pending \cup {response} ELSE pending
         /\ apiCall' =
              IF r.statusCode = 200 THEN [sent EXCEPT !.outcome = "resolved"]
              ELSE IF UsesRequest(apiCall.op) /\ r.statusCode >= 500 /\ apiCall.retryCount > 0
                THEN [sent EXCEPT !.retryCount = @ - 1]
              ELSE [sent EXCEPT !.outcome = "rejected"]
  /\ UNCHANGED << now, imageVars, clientVars, loaderVars, cryptoVars, limiterVars, ipAttempts,
                  blockedIPs, timers, failureLog, blockLog, oneTimeCall, keyCalls, keyResults, testResults >>

\* WasmLoader's constructor.
InitLoader ==
  /\ wasmModule = Null
  /\ isLoaded = FALSE
  /\ isLoading = FALSE
  /\ loadPromise = Null
  /\ loads = << >>
  /\ loadCalls = << >>
  /\ unloaded = TRUE
  /\ lastSettled = Null

InitApi ==
  /\ oneTimeCall = NoOneTimeCall
  /\ apiCall = NoApiCall
  /\ keyCalls = {}
  /\ keyResults = << >>
  /\ testResults = << >>

InitSecurity ==
  /\ ipAttempts = << >>
  /\ blockedIPs = {}
  /\ timers = {}
  /\ pending = {}
  /\ failureLog = [ip \in IPs |-> << >>]
  /\ blockLog = [ip \in IPs |-> NoBlock]
  /\ hits = << >>
  /\ keyRequests = << >>

InitImages ==
  /\ metadataFiles = << >>
  /\ encryptedFiles = << >>
  /\ keyCache = << >>
  /\ issuedTokens = {}
  /\ usedIds = {}
  /\ uploaded = << >>
  /\ last = Called("init", NoImage, TRUE, "")

Init ==
  now = 0 /\ InitImages /\ InitSecurity /\ InitClient /\ InitCrypto /\ InitApi /\ InitLoader

\* A UUID not drawn before (which one is immaterial).
Fresh(pool) == IF pool \subseteq usedIds THEN {} ELSE {CHOOSE x \in pool \ usedIds : TRUE}

(***************************************************************************)
(* Spec: one stored image over time (issue, redeem, refresh, expiry, sweep)*)
(***************************************************************************)
Next ==
  \/ \E p \in Plaintexts, u \in Users, d \in RandomDraws,
        i \in Fresh({"i1"}), f \in Fresh({"f1"}) :
       encryptAndStoreImage(p, u, d, i, f, TRUE, TRUE)
  \/ \E i \in ImageIds, t \in Presentable, u \in Requesters, s \in Fresh(SessionIds) :
       getDecryptionKey(i, t, u, s)
  \/ \E i \in ImageIds, t \in Presentable, u \in Requesters : downloadEncryptedImage(i, t, u)
  \/ \E t \in Presentable, i \in ImageIds, s \in SessionIds : verifyKeyAccess(t, i, s)
  \/ cacheCleanup
  \/ \E t \in issuedTokens : RefreshToken(t)
  \/ \E i \in ImageIds, t \in Presentable, s \in Fresh(OneTimeSessionIds) :
       GenerateOneTimeToken(i, t, NoExpiresIn, s)
  \/ Tick

Spec == Init /\ [][Next]_vars

\* The plaintext uploaded as, and the random bytes drawn for, each image of
\* SpecStore (two different plaintexts under two different keys).
PlaintextOf(imageId) ==
  IF imageId = "i1" THEN <<137, 80, 78, 71, 13>> ELSE [i \in 1..16 |-> 200 + i]

DrawOf(imageId) ==
  CHOOSE d \in RandomDraws : (d.key[1] = 1) <=> (imageId = "i1")

(***************************************************************************)
(* SpecStore: two stored images at one instant (scopes, owners, deletion)  *)
(***************************************************************************)
NextStore ==
  \/ \E u \in Users, i \in Fresh(ImageIds), f \in Fresh(Paths) :
       encryptAndStoreImage(PlaintextOf(i), u, DrawOf(i), i, f, TRUE, TRUE)
  \/ \E i \in ImageIds, t \in Presentable, u \in Requesters, s \in Fresh(SessionIds) :
       getDecryptionKey(i, t, u, s)
  \/ \E i \in ImageIds, t \in Presentable, u \in Requesters : downloadEncryptedImage(i, t, u)
  \/ \E t \in Presentable, i \in ImageIds, s \in SessionIds : verifyKeyAccess(t, i, s)
  \/ \E i \in ImageIds, u \in Users, fileOk \in BOOLEAN, metaOk \in BOOLEAN :
       deleteImage(i, u, fileOk, metaOk)

SpecStore == Init /\ [][NextStore]_vars

(***************************************************************************)
(* SpecUpload: uploads whose file writes can fail, downloads and deletions *)
(***************************************************************************)
NextUpload ==
  \/ \E u \in Users, i \in Fresh(ImageIds), f \in Fresh(Paths),
        fileOk \in BOOLEAN, metaOk \in BOOLEAN :
       encryptAndStoreImage(PlaintextOf(i), u, DrawOf(i), i, f, fileOk, metaOk)
  \/ \E i \in ImageIds, t \in Presentable, u \in Requesters : downloadEncryptedImage(i, t, u)
  \/ \E i \in ImageIds, u \in Users, fileOk \in BOOLEAN, metaOk \in BOOLEAN :
       deleteImage(i, u, fileOk, metaOk)

SpecUpload == Init /\ [][NextUpload]_vars

(***************************************************************************)
(* SpecBan: requests of one IP through the routes, the failure count, the  *)
(* ban and its timers                                                      *)
(***************************************************************************)
\* In SpecBan failures are recorded and blocks installed up to MaxBlockTime.
MaxBlockTime == 900

NextBan ==
  \/ \E ip \in IPs, route \in Routes, limited \in BOOLEAN,
        authStatus \in AuthStatuses, handlerStatus \in HandlerStatuses :
       Request(ip, route, limited, authStatus, handlerStatus)
  \/ \E response \in pending : now <= MaxBlockTime /\ Finish(response, {})
  \/ \E timer \in timers : TimerFires(timer)
  \/ securityCleanup
  \/ \E ip \in IPs, duration \in Durations : now <= MaxBlockTime /\ blockIP(ip, duration, FALSE)
  \/ \E ip \in IPs : unblockIP(ip)
  \/ TickBan

SpecBan == Init /\ [][NextBan]_vars

\* SpecWindow: the failure count of one IP with the log of its recent failures.
NextWindow ==
  \/ \E ip \in IPs, route \in Routes, limited \in BOOLEAN,
        authStatus \in AuthStatuses, handlerStatus \in HandlerStatuses :
       Request(ip, route, limited, authStatus, handlerStatus)
  \/ \E response \in pending : Finish(response, {"failureLog"})
  \/ \E timer \in timers : TimerFires(timer)
  \/ TickBan

SpecWindow == Init /\ [][NextWindow]_vars

\* SpecBlock: blocks of one IP, by the threshold rule and by the operator,
\* with the log of the block installed last. Its requests are get-key
\* requests that the route's authentication refuses.
NextBlock ==
  \/ \E ip \in IPs, authStatus \in AuthRejects("verifyImageAccess") :
       Request(ip, "get-key", FALSE, authStatus, 200)
  \/ \E response \in pending : now <= MaxBlockTime /\ Finish(response, {"blockLog"})
  \/ \E timer \in timers : TimerFires(timer)
  \/ \E ip \in IPs, duration \in Durations : now <= MaxBlockTime /\ blockIP(ip, duration, TRUE)
  \/ \E ip \in IPs : unblockIP(ip)
  \/ TickBan

SpecBlock == Init /\ [][NextBlock]_vars

\* SpecLoader: loadWasm calls on the shared loader, their loads settling one
\* way or the other, and dispose calls that unload it.
NextLoader ==
  \/ loadWasm
  \/ \E n \in InFlight, ok \in BOOLEAN : loadWasmResumes(n, ok)
  \/ dispose

SpecLoader == Init /\ [][NextLoader]_vars

\* SpecLoadOnly: the same without dispose, so that unloadWasm never runs.
NextLoadOnly ==
  \/ loadWasm
  \/ \E n \in InFlight, ok \in BOOLEAN : loadWasmResumes(n, ok)

SpecLoadOnly == Init /\ [][NextLoadOnly]_vars

\* Timers fire and the clock keeps running.
LiveSpecBan ==
  /\ SpecBan
  /\ WF_vars(TickBan)
  /\ WF_vars(\E timer \in timers : TimerFires(timer))

(***************************************************************************)
(* SpecDecrypt: one ImageDecryptor, initialised and disposed at will, one  *)
(* decryptImage call at a time                                             *)
(***************************************************************************)
NextDecrypt ==
  \/ \E forceMode \in ForceModes, preferWasm \in BOOLEAN, wasmSupported \in BOOLEAN,
        init \in InitOutcomes :
       initialize(forceMode, preferWasm, wasmSupported, init)
  \/ dispose
  \/ \E in \in DecryptInputs, progressCallback \in BOOLEAN, timeout \in Timeouts :
       ImageDecryptor_decryptImage(in, progressCallback, timeout)
  \/ \E wasm \in WasmOutcomes, verdict \in WasmVerdicts : WasmReturns(wasm, verdict)
  \/ \E library \in LibraryOutcomes, verdict \in WasmVerdicts :
       FallbackReturns(library, verdict)
  \/ Elapse

SpecDecrypt == Init /\ [][NextDecrypt]_vars

(***************************************************************************)
(* SpecHandler: handleWithFallback on arbitrary primary and fallback       *)
(* actions                                                                 *)
(***************************************************************************)
NextHandler ==
  \E primary \in PrimaryOutcomes, fallback \in FallbackOutcomes :
    HandleWithFallback(primary, fallback)

SpecHandler == Init /\ [][NextHandler]_vars

(***************************************************************************)
(* SpecVerify: verifyDecryptedImage with and without the module loaded     *)
(***************************************************************************)
NextVerify ==
  \/ \E forceMode \in ForceModes, preferWasm \in BOOLEAN, wasmSupported \in BOOLEAN,
        init \in InitOutcomes :
       initialize(forceMode, preferWasm, wasmSupported, init)
  \/ dispose
  \/ \E decryptedData \in VerifyBuffers, verdict \in WasmVerdicts :
       VerifyDecryptedImage(decryptedData, verdict)

SpecVerify == Init /\ [][NextVerify]_vars

(***************************************************************************)
(* SpecEnvelope: encryptKeyAndIV and decryptKeyAndIV as functions          *)
(***************************************************************************)
NextEnvelope ==
  \/ \E w \in WrapInputs : EncryptKeyAndIV(w)
  \/ \E secret \in MasterSecrets : DecryptKeyAndIV(secret)

SpecEnvelope == Init /\ [][NextEnvelope]_vars

(***************************************************************************)
(* SpecCipher: encryptImage and decryptImage as functions                  *)
(***************************************************************************)
NextCipher ==
  \/ \E p \in CipherPlaintexts, key \in CryptoKeys, iv \in CryptoIVs : EncryptImage(p, key, iv)
  \/ \E key \in CryptoKeys, iv \in CryptoIVs : DecryptImage(key, iv)

SpecCipher == Init /\ [][NextCipher]_vars

(***************************************************************************)
(* SpecKeyLimit: get-key requests of one IP on behalf of different users   *)
(***************************************************************************)
NextKeyLimit ==
  \/ \E ip \in IPs, userId \in Users : GetKeyRequest(ip, userId)
  \/ \E response \in pending : Finish(response, {})
  \/ TickLimiter

SpecKeyLimit == Init /\ [][NextKeyLimit]_vars

(***************************************************************************)
(* SpecOneTime: one-time tokens asked for with every kind of expiresIn     *)
(***************************************************************************)
OneTimePool == {"o1", "o2"}

NextOneTime ==
  \/ \E u \in Users, i \in Fresh({"i1"}), f \in Fresh({"f1"}) :
       encryptAndStoreImage(PlaintextOf(i), u, DrawOf(i), i, f, TRUE, TRUE)
  \/ \E i \in ImageIds, t \in Presentable, body \in ExpiresInBodies, s \in Fresh(OneTimePool) :
       GenerateOneTimeToken(i, t, body, s)

SpecOneTime == Init /\ [][NextOneTime]_vars

(***************************************************************************)
(* SpecApi: ApiClient calls that the server accepts or refuses             *)
(***************************************************************************)
NextApi ==
  \/ \E op \in ApiOps, authStatus \in AuthStatuses, denied \in BOOLEAN :
       ApiCall(op, authStatus, denied)
  \/ \E ip \in IPs, limited \in BOOLEAN : ApiRequest(ip, limited)
  \/ \E response \in pending : Finish(response, {})

SpecApi == Init /\ [][NextApi]_vars

(***************************************************************************)
(* SpecConcurrent: getDecryptionKey calls of two callers in flight at once *)
(* for one stored image, redemptions, the sweep and the clock              *)
(***************************************************************************)
NextConcurrent ==
  \/ \E u \in Users, i \in Fresh({"i1"}), f \in Fresh({"f1"}) :
       encryptAndStoreImage(PlaintextOf(i), u, DrawOf(i), i, f, TRUE, TRUE)
  \/ \E c \in Callers, i \in ImageIds, t \in Presentable, u \in Requesters :
       getDecryptionKeyBegins(c, i, t, u)
  \/ \E waiting \in keyCalls, s \in Fresh(SessionIds) : getDecryptionKeyResumes(waiting, s)
  \/ \E t \in Presentable, i \in ImageIds, s \in SessionIds : verifyKeyAccess(t, i, s)
  \/ cacheCleanup
  \/ Tick

SpecConcurrent == Init /\ [][NextConcurrent]_vars

(***************************************************************************)
(* SpecAgree: the tester's loop over its cases, on a decryptor initialized *)
(* one way or another                                                      *)
(***************************************************************************)
NextAgree ==
  \/ \E forceMode \in ForceModes, preferWasm \in BOOLEAN, wasmSupported \in BOOLEAN,
        init \in InitOutcomes :
       testResults = << >> /\ initialize(forceMode, preferWasm, wasmSupported, init)
  \/ RunTest

SpecAgree == Init /\ [][NextAgree]_vars

(***************************************************************************)
(* SpecIssue: two stored images under different keys at one instant; key   *)
(* calls of two callers in flight at once, redemptions and deletions       *)
(***************************************************************************)
\* Who uploads which image.
OwnerOf(imageId) == IF imageId = "i1" THEN "u1" ELSE "u2"

NextIssue ==
  \/ \E i \in Fresh(ImageIds), f \in Fresh(Paths) :
       encryptAndStoreImage(PlaintextOf(i), OwnerOf(i), DrawOf(i), i, f, TRUE, TRUE)
  \/ \E c \in Callers, i \in ImageIds, t \in Presentable, u \in Requesters :
       getDecryptionKeyBegins(c, i, t, u)
  \/ \E waiting \in keyCalls, s \in Fresh(SessionIds) : getDecryptionKeyResumes(waiting, s)
  \/ \E t \in Presentable, i \in ImageIds, s \in SessionIds : verifyKeyAccess(t, i, s)
  \/ \E i \in ImageIds, u \in Users : deleteImage(i, u, TRUE, TRUE)

SpecIssue == Init /\ [][NextIssue]_vars

(***************************************************************************)
(* Properties of the image service                                         *)
(***************************************************************************)

KeyTokensOf(imageId, sessionId) ==
  {t \in issuedTokens : t.type = "key_access" /\ t.imageId = imageId
                          /\ t.sessionId = sessionId}

AccessTokensOf(imageId) ==
  {t \in issuedTokens : t.type = "image_access" /\ t.imageId = imageId}

\* The key token and cache entry of session s of image i, still within the
\* key lifetime.
LiveSession(i, s) ==
  /\ <<i, s>> \in DOMAIN keyCache
  /\ now < keyCache[<<i, s>>].expiresAt

C2_NotOwnerNoKey ==
  [][\A i \in ImageIds, t \in Presentable, u \in Requesters, s \in SessionIds :
       (HasMetadata(i) /\ metadataFiles[i].userId # u /\ getDecryptionKey(i, t, u, s))
         => (~last'.ok /\ keyCache' = keyCache /\ issuedTokens' = issuedTokens)]_vars

C2_Witness ==
  /\ last.op = "getKey" /\ last.error = "userId mismatch"
  /\ DOMAIN metadataFiles # {}
  /\ DOMAIN keyCache # {}

\* C3: a key token minted for (image A, session S1) never redeems under
\* another session id or another image id.
C3_TokenBoundToSession ==
  \A kt \in {t \in issuedTokens : t.type = "key_access"},
     i \in ImageIds, s \in SessionIds :
    (i # kt.imageId \/ s # kt.sessionId) => ~verifyKeyAccessResult(kt, i, s).valid

\* Two live sessions of one image, and a redemption refused for the session.
C3_Witness ==
  /\ last.op = "verifyKey" /\ last.error = "session mismatch"
  /\ \E i \in ImageIds : \A s \in SessionIds : LiveSession(i, s)

\* C4: key issuance and download succeed only for a token of type
\* image_access.
C4_OnlyObjectScope ==
  \A i \in ImageIds, t \in Presentable, u \in Requesters, s \in SessionIds :
    /\ getDecryptionKeyResult(i, t, u, s).ok => t.type = "image_access"
    /\ downloadEncryptedImageResult(i, t, u).ok => t.type = "image_access"

\* C5: an entry whose expiresAt the clock has passed, and a missing entry,
\* never redeem, whatever token is presented and whether or not the sweep ran.
C5_ExpiredFailsClosed ==
  \A i \in ImageIds, s \in SessionIds, t \in Presentable :
    (<<i, s>> \notin DOMAIN keyCache \/ keyCache[<<i, s>>].expiresAt < now)
      => ~verifyKeyAccessResult(t, i, s).valid

\* A redemption refused for expiry alone (the token still verified).
C5_Witness == last.op = "verifyKey" /\ last.error = "key expired"

\* The step is a deleteImage(i, u) by the owner of image i.
DeleteByOwner(i, u, fileOk, metaOk) ==
  HasMetadata(i) /\ metadataFiles[i].userId = u /\ deleteImage(i, u, fileOk, metaOk)

\* deleteImage(i) has just returned true.
Deleted(i) == last.op = "delete" /\ last.ok /\ last.imageId = i

NoEntryOf(i) ==
  /\ \A k \in DOMAIN keyCache : keyCache[k].imageId # i
  /\ \A t \in Presentable, s \in SessionIds : ~verifyKeyAccessResult(t, i, s).valid

NoAccessTo(i) ==
  \A t \in Presentable, u \in Requesters, s \in SessionIds :
    /\ ~getDecryptionKeyResult(i, t, u, s).ok
    /\ ~downloadEncryptedImageResult(i, t, u).ok

OthersUntouched ==
  \A i \in ImageIds, u \in Users, fileOk \in BOOLEAN, metaOk \in BOOLEAN :
    DeleteByOwner(i, u, fileOk, metaOk) =>
      \A k \in DOMAIN keyCache :
        keyCache[k].imageId # i => (k \in DOMAIN keyCache' /\ keyCache'[k] = keyCache[k])

C10_BestEffortDelete ==
  [][\A i \in ImageIds, u \in Users, fileOk \in BOOLEAN, metaOk \in BOOLEAN :
       DeleteByOwner(i, u, fileOk, metaOk) =>
         /\ last'.op = "delete" /\ last'.ok
         /\ fileOk => metadataFiles[i].filePath \notin DOMAIN encryptedFiles'
         /\ metaOk => ~HasMetadata(i)'
         /\ \A k \in DOMAIN keyCache' : keyCache'[k].imageId # i]_vars

\* A delete whose unlink failed, with a cache entry purged.
C10_Witness ==
  /\ last.op = "delete" /\ last.ok /\ last.error = "unlink failed (logged)"
  /\ usedIds \cap SessionIds # {}
  /\ DOMAIN keyCache = {}

\* The step is a deleteImage(i, u) of an image that has no metadata record or
\* whose record names another owner.
DeleteRefused(i, u, fileOk, metaOk) ==
  (~HasMetadata(i) \/ metadataFiles[i].userId # u) /\ deleteImage(i, u, fileOk, metaOk)

\* C31: deleteImage by a user who is not the owner, or for an image that
\* does not exist, fails and leaves the ciphertext files, the metadata
\* records and every cache entry as they were.
C31_RefusedDeleteChangesNothing ==
  [][last'.op = "delete" =>
       \A u \in Users, fileOk \in BOOLEAN, metaOk \in BOOLEAN :
         DeleteRefused(last'.imageId, u, fileOk, metaOk) =>
           /\ ~last'.ok
           /\ encryptedFiles' = encryptedFiles
           /\ metadataFiles' = metadataFiles
           /\ keyCache' = keyCache]_vars

\* A delete refused to a non-owner while the image has its ciphertext, its
\* record and a cache entry.
C31_Witness ==
  /\ last.op = "delete" /\ ~last.ok /\ last.error = "not the owner"
  /\ HasMetadata(last.imageId)
  /\ metadataFiles[last.imageId].filePath \in DOMAIN encryptedFiles
  /\ \E k \in DOMAIN keyCache : keyCache[k].imageId = last.imageId

\* A delete refused because the image has no record, while its ciphertext
\* was left behind by an earlier delete.
C31_WitnessMissing ==
  /\ last.op = "delete" /\ ~last.ok /\ last.error = "image does not exist"
  /\ encryptedFiles # << >>

\* The raw key and IV bytes of every upload, and their base64 texts.
RawKeyMaterial ==
  UNION {{d.key, d.iv, Base64Encode(d.key), Base64Encode(d.iv)} : d \in RandomDraws}

\* sub occurs in buf as a run of consecutive bytes.
Contains(buf, sub) ==
  \E from \in 1..(Len(buf) - Len(sub) + 1) : Slice(buf, from, from + Len(sub) - 1) = sub

\* The envelope of draw d: wrapped key and IV as encryptKeyAndIV returns
\* them; neither (decoded) holds the raw key or the raw IV as a run of bytes.
Enveloped(d) ==
  LET w == WrappedKeys[d]
      blobs == {Base64Decode(w.encryptedKey), Base64Decode(w.encryptedIV)}
  IN  /\ {w.encryptedKey, w.encryptedIV} \cap RawKeyMaterial = {}
      /\ \A b \in blobs : ~Contains(b, d.key) /\ ~Contains(b, d.iv)

EnvelopedDraws == {d \in RandomDraws : Enveloped(d)}

\* The metadata record m holds the key and the IV of its image as the
\* envelope of some draw, and nowhere else.
WrappedAtRest(m) ==
  /\ \E d \in EnvelopedDraws :
        /\ m.encryptedKey = WrappedKeys[d].encryptedKey
        /\ m.encryptedIV = WrappedKeys[d].encryptedIV
  /\ m.fileHash \notin RawKeyMaterial

\* C11: every persisted metadata record holds the key and the IV only in
\* envelope-wrapped form and no stored ciphertext is raw key material; the
\* key cache gains entries only in a successful getDecryptionKey, and
\* encryptAndStoreImage leaves the key cache unchanged.
C11_RawKeyOnlyInCache ==
  /\ [](/\ \A i \in DOMAIN metadataFiles : WrappedAtRest(metadataFiles[i])
        /\ \A f \in DOMAIN encryptedFiles : encryptedFiles[f] \notin RawKeyMaterial)
  /\ [][DOMAIN keyCache' \subseteq DOMAIN keyCache \/ (last'.op = "getKey" /\ last'.ok)]_vars
  /\ [][last'.op = "encrypt" => keyCache' = keyCache]_vars

\* An upload that completed while a raw key was cached for another image.
C11_Witness ==
  /\ last.op = "encrypt" /\ last.ok
  /\ \E k \in DOMAIN keyCache :
        /\ keyCache[k].key \in RawKeyMaterial
        /\ keyCache[k].imageId # last.imageId
  /\ Cardinality(DOMAIN metadataFiles) = 2

\* What a returned call's key token and session redeem to now.
Redeemed(r) == verifyKeyAccessResult(r.keyToken, r.imageId, r.sessionId)

\* C27: getDecryptionKey calls that were in flight together return distinct
\* session ids and key tokens; until the key lifetime of a call has elapsed
\* its own cache entry is there as the call wrote it, whatever the other
\* call did, and its key token redeems to the key and IV it returned, which
\* are the same for both calls on the same image.
C27_ConcurrentIssuesIndependent ==
  \A c \in DOMAIN keyResults :
    LET r == keyResults[c]
    IN  /\ \A d \in DOMAIN keyResults \ {c} :
             /\ keyResults[d].sessionId # r.sessionId
             /\ keyResults[d].keyToken # r.keyToken
             /\ keyResults[d].imageId = r.imageId =>
                  (keyResults[d].key = r.key /\ keyResults[d].iv = r.iv)
        /\ now < r.issuedAt + keyExpiresIn =>
             /\ << r.imageId, r.sessionId >> \in DOMAIN keyCache
             /\ keyCache[<< r.imageId, r.sessionId >>] =
                  [key |-> r.key, iv |-> r.iv, expiresAt |-> r.issuedAt + keyExpiresIn,
                   userId |-> r.keyToken.userId, imageId |-> r.imageId]
             /\ Redeemed(r).valid
             /\ Redeemed(r).key = r.key /\ Redeemed(r).iv = r.iv

\* Two calls for the same image were in flight together and both returned.
C27_Witness ==
  /\ DOMAIN keyResults = Callers
  /\ \E c \in Callers : keyResults[c].overlapped
  /\ keyResults["c1"].imageId = keyResults["c2"].imageId
  /\ now < keyResults["c1"].issuedAt + keyExpiresIn
  /\ now < keyResults["c2"].issuedAt + keyExpiresIn

\* The key and the IV with which image i was encrypted, as base64.
MaterialOf(i) == [key |-> Base64Encode(DrawOf(i).key), iv |-> Base64Encode(DrawOf(i).iv)]

\* C29: whenever verifyKeyAccess accepts a token for an image and a session,
\* the token is the one a getDecryptionKey call returned with that session
\* for that image, and the key and the IV it returns are those that call
\* unwrapped from the image's metadata: the image's own, never another's.
C29_RedeemsOwnMaterial ==
  \A t \in Presentable, i \in ImageIds, s \in SessionIds :
    LET r == verifyKeyAccessResult(t, i, s)
    IN  r.valid =>
          /\ \E c \in DOMAIN keyResults :
               /\ keyResults[c].keyToken = t
               /\ keyResults[c].imageId = i /\ keyResults[c].sessionId = s
               /\ keyResults[c].key = r.key /\ keyResults[c].iv = r.iv
          /\ r.key = MaterialOf(i).key /\ r.iv = MaterialOf(i).iv
          /\ \A j \in ImageIds \ {i} : r.key # MaterialOf(j).key /\ r.iv # MaterialOf(j).iv

\* Sessions of two different images are cached, and one was just redeemed.
C29_Witness ==
  /\ last.op = "verifyKey" /\ last.ok
  /\ \A i \in ImageIds : \E s \in SessionIds : << i, s >> \in DOMAIN keyCache

\* Image i was stored and its metadata record has since been deleted.
Gone(i) == i \in DOMAIN uploaded /\ ~HasMetadata(i)

\* C33: once an image has been deleted and no getDecryptionKey call for it
\* is still waiting for its metadata read, the key cache holds no entry of
\* the image, however the delete and the key calls were interleaved.
C33_PurgeHoldsUnderInterleaving ==
  \A i \in ImageIds :
    (Gone(i) /\ \A waiting \in keyCalls : waiting.imageId # i)
      => \A k \in DOMAIN keyCache : keyCache[k].imageId # i

\* C34: every token of type key_access that is signed, by generateKeyToken
\* or by refreshToken, and that verifyToken accepts, expires at most
\* keyExpiresIn after the instant it was signed.
C34_KeyTokenLifetimeBounded ==
  [][\A t \in issuedTokens' \ issuedTokens :
       (t.type = "key_access" /\ verifyToken(t, now).ok) => t.exp <= now + keyExpiresIn]_vars

\* C35: an encryptAndStoreImage call that fails, at whichever step, leaves
\* behind neither a ciphertext file nor a metadata record of its own: the
\* two directories are as they were before the call.
C35_UploadAllOrNothing ==
  [][(last'.op = "encrypt" /\ ~last'.ok) =>
       \A u \in Users, i \in ImageIds, f \in Paths, fileOk \in BOOLEAN, metaOk \in BOOLEAN :
         encryptAndStoreImage(PlaintextOf(i), u, DrawOf(i), i, f, fileOk, metaOk) =>
           (encryptedFiles' = encryptedFiles /\ metadataFiles' = metadataFiles)]_vars

\* The step removes from the cache one expired entry of the image that the
\* last call was about, and nothing else.
DropsExpiredEntry ==
  \E s \in SessionIds :
    LET k == << last'.imageId, s >>
    IN  /\ k \in DOMAIN keyCache
        /\ keyCache[k].expiresAt < now
        /\ keyCache' = Without(keyCache, {k})

\* C30: a verifyKeyAccess call that succeeds leaves the key cache as it was;
\* one that fails leaves it as it was too, unless it is refused because the
\* looked-up entry has expired, and then it removes that one entry; and no
\* step of any operation changes the content of an entry that stays in the
\* cache, so that every redemption of a live entry returns the same key and
\* IV.
C30_RedeemReadOnly ==
  /\ [][last'.op = "verifyKey" =>
          /\ last'.ok => keyCache' = keyCache
          /\ last'.error # "key expired" => keyCache' = keyCache
          /\ keyCache' # keyCache => DropsExpiredEntry]_vars
  /\ [][\A k \in DOMAIN keyCache \cap DOMAIN keyCache' : keyCache'[k] = keyCache[k]]_vars

\* A redemption has just succeeded, after the clock moved, with the entries
\* of two sessions in the cache.
C30_Witness ==
  /\ last.op = "verifyKey" /\ last.ok
  /\ now > 0
  /\ Cardinality(DOMAIN keyCache) = 2

(***************************************************************************)
(* Properties of ImageCrypto                                               *)
(***************************************************************************)
\* C21: decryptKeyAndIV under the secret of encryptKeyAndIV returns exactly
\* the key and the IV that were wrapped; each wrapped value is the base64
\* text of its own 16-byte wrap IV followed by the ciphertext of the value
\* under that wrap IV, and the unwrap reads the wrap IV from the first 16
\* decoded bytes of each value.
C21_EnvelopeRoundTrip ==
  envelopeCall.called =>
    LET keyBuffer == Base64Decode(envelopeCall.encryptedKey)
        ivBuffer == Base64Decode(envelopeCall.encryptedIV)
        masterKeyHash == Sha256(envelopeCall.masterKey)
    IN  /\ Base64Encode(keyBuffer) = envelopeCall.encryptedKey
        /\ Base64Encode(ivBuffer) = envelopeCall.encryptedIV
        /\ Len(keyBuffer) = ivLength + keyLength + BlockSize
        /\ Len(ivBuffer) = ivLength + ivLength + BlockSize
        /\ Slice(keyBuffer, 1, ivLength) = envelopeCall.keyIV
        /\ Slice(ivBuffer, 1, ivLength) = envelopeCall.ivIV
        /\ decryptImage(Slice(keyBuffer, ivLength + 1, Len(keyBuffer)), masterKeyHash,
                        Slice(keyBuffer, 1, ivLength)).data = envelopeCall.key
        /\ decryptImage(Slice(ivBuffer, ivLength + 1, Len(ivBuffer)), masterKeyHash,
                        Slice(ivBuffer, 1, ivLength)).data = envelopeCall.iv
        /\ (unwrapCall.called /\ unwrapCall.masterKey = envelopeCall.masterKey)
             => /\ unwrapCall.ok
                /\ unwrapCall.key = envelopeCall.key
                /\ unwrapCall.iv = envelopeCall.iv

\* An envelope with two different wrap IVs has been unwrapped under its
\* secret.
C21_Witness ==
  /\ envelopeCall.called /\ unwrapCall.called
  /\ unwrapCall.masterKey = envelopeCall.masterKey
  /\ envelopeCall.keyIV # envelopeCall.ivIV
  /\ unwrapCall.key = envelopeCall.key /\ Len(unwrapCall.key) = keyLength

\* C22: decryptImage under the key and the IV of encryptImage returns the
\* buffer that was encrypted, whatever its length, and the ciphertext is as
\* long as the next multiple of 16 strictly above the buffer's length.
C22_CipherRoundTrip ==
  encryptCall.called =>
    /\ Len(encryptCall.data) = ((Len(encryptCall.imageBuffer) \div 16) + 1) * 16
    /\ (decryptCall.called /\ decryptCall.key = encryptCall.key
          /\ decryptCall.iv = encryptCall.iv)
         => (decryptCall.ok /\ decryptCall.data = encryptCall.imageBuffer)

\* The empty buffer has been encrypted and decrypted.
C22_Witness ==
  /\ encryptCall.called /\ decryptCall.called
  /\ encryptCall.imageBuffer = << >>
  /\ Len(encryptCall.data) = BlockSize
  /\ decryptCall.key = encryptCall.key /\ decryptCall.iv = encryptCall.iv
  /\ decryptCall.ok

(***************************************************************************)
(* Properties of the ban machine and the routes                            *)
(***************************************************************************)

\* C6: whenever the failures recorded for an IP within the last timeWindow
\* number maxAttempts or more, the IP is in blockedIPs right after the
\* failure that made them so, whatever was recorded before that window.
C6_RollingWindowBan ==
  [][\A response \in pending :
       (response.statusCode \in {401, 403} /\ Finish(response, {"failureLog"})) =>
         (Len(failureLog'[response.ip]) >= maxAttempts => response.ip \in blockedIPs')]_vars

\* C7: a request from a blocked IP to any route but the health check is
\* answered 429 before its handler runs and before a rate limiter counts it.
C7_BlockedRejectedFirst ==
  \A ip \in blockedIPs, route \in Routes \ {"health"}, limited \in BOOLEAN,
     authStatus \in AuthStatuses, handlerStatus \in HandlerStatuses :
    LET r == Respond(ip, route, limited, authStatus, handlerStatus)
    IN  ~r.handled /\ r.consulted = {} /\ r.statusCode = 429

\* The step takes ip out of blockedIPs.
Lifted(ip) == ip \in blockedIPs /\ ip \notin blockedIPs'

\* The step is the timer of the block installed last for ip, firing when that
\* block ends.
ByOwnExpiry(ip) ==
  /\ blockLog[ip].installed /\ blockLog[ip].timed /\ blockLog[ip].until <= now
  /\ \E timer \in timers : timer.ip = ip /\ TimerFires(timer)

\* C32: a block is lifted only by an unblockIP call or by its own expiry,
\* one hour (or blockIP's duration) after it was installed; a timer left by
\* an earlier ban or blockIP call never lifts the block installed last.
C32_BlockLastsFullDuration ==
  [][\A ip \in IPs : Lifted(ip) => (unblockIP(ip) \/ ByOwnExpiry(ip))]_vars

UnbanTimers ==
  [callback : {"unban"}, ip : IPs,
   due : {(n * BanTickStep) + unbanDelay : n \in 0 .. (MaxBlockTime \div BanTickStep)}]

Clean(ip) == ip \notin blockedIPs /\ ip \notin DOMAIN ipAttempts

\* The step records a failure of ip that meets the threshold rule.
ThresholdReached(ip) ==
  /\ ip \in DOMAIN ipAttempts'
  /\ ipAttempts'[ip].count = Attempts(ip).count + 1
  /\ ipAttempts'[ip].count >= maxAttempts
  /\ now - ipAttempts'[ip].firstAttempt <= timeWindow

\* C8: every ban installed by the threshold rule schedules an unban one hour
\* later; that timer fires, at its due time, and leaves the IP out of
\* blockedIPs and without a failure record.
C8_AutoUnban ==
  /\ [][\A ip \in IPs :
          ThresholdReached(ip) =>
            /\ ip \in blockedIPs'
            /\ [callback |-> "unban", ip |-> ip, due |-> now + unbanDelay] \in timers']_vars
  /\ \A timer \in UnbanTimers : (timer \in timers) ~> (timer \notin timers)
  /\ [][\A timer \in timers :
          (timer.callback = "unban" /\ timer \notin timers') =>
            (now = timer.due /\ Clean(timer.ip)')]_vars

\* The hour of a threshold ban is over: its timer is due, the IP still
\* blocked with maxAttempts failures on record.
C8_Witness ==
  \E timer \in timers :
    /\ timer.callback = "unban" /\ timer.due = now
    /\ timer.ip \in blockedIPs
    /\ timer.ip \in DOMAIN ipAttempts /\ ipAttempts[timer.ip].count >= maxAttempts
\* The get-key requests before the k-th that came from the same IP on behalf
\* of the same user less than a minute before it.
EarlierSameUser(k) ==
  {j \in 1..(k - 1) :
     /\ keyRequests[j].ip = keyRequests[k].ip
     /\ keyRequests[j].userId = keyRequests[k].userId
     /\ keyRequests[k].time - keyRequests[j].time < keyAccessWindow}

\* C23: a get-key request is answered 429 by the rate limiter exactly when
\* five or more requests from the same IP on behalf of the same user came
\* within the minute before it; requests on behalf of other users do not
\* count against it.
C23_PerUserKeyLimit ==
  \A k \in 1..Len(keyRequests) :
    (keyRequests[k].statusCode = 429) <=> (Cardinality(EarlierSameUser(k)) >= keyAccessLimit)

\* C24: a one-time token is minted only for a request whose expiresIn
\* passes the route's rule, and its lifetime is between 60 and 3600 seconds.
C24_OneTimeLifetimeBounded ==
  oneTimeCall.minted =>
    /\ ~oneTimeCall.errors
    /\ oneTimeCall.expiresInSeconds \in minExpiresIn..maxExpiresIn

\* The server refused the call for its token, its scope or its owner.
AuthorizationError(c) == c.authStatus # 200 \/ c.denied

\* C25: a call that the server refuses with an authorization error is
\* rejected after exactly one request, whatever the operation.
C25_AuthErrorNotRetried ==
  (AuthorizationError(apiCall) /\ apiCall.op # "" /\ apiCall.outcome # "none") =>
     /\ apiCall.requests <= 1
     /\ apiCall.outcome = "rejected" => apiCall.requests = 1

\* C26: every 401 or 403 answered to an ApiClient request of a token-gated
\* operation is awaited by recordFailedAttempt's listener, and the listener
\* adds exactly one to the failure count of the requesting IP.
C26_RefusalCounted ==
  [][/\ (apiCall'.requests = apiCall.requests + 1 /\ apiCall'.statusCode \in {401, 403})
          => \E ip \in IPs : [ip |-> ip, statusCode |-> apiCall'.statusCode] \in pending'
     /\ \A response \in pending \ pending' :
          response.statusCode \in {401, 403}
            => ipAttempts'[response.ip].count =
                 (IF response.ip \in DOMAIN ipAttempts
                    THEN ipAttempts[response.ip].count ELSE 0) + 1]_vars

(***************************************************************************)
(* Properties of the browser-side decryptor                                *)
(***************************************************************************)
\* The call was made with what the server sent: a ciphertext of an image
\* under the issued key and IV.
ValidInput == call.in.encryptedData \in Ciphertexts /\ Validations[call.in] = NoError

\* The error is a timeout: by its type or by its message.
IsTimeout(error) ==
  error.type = "TIMEOUT_ERROR" \/ Includes(error, {"timeout", "zh-timeout"})

Settled == call.pc = "settled"

\* C12: a call with valid ciphertext, key and IV whose accelerated attempt
\* failed for a reason other than a timeout resolves with the plaintext of
\* the whole-buffer CBC decryption by the interpreted backend, whatever the
\* ciphertext length and with or without a progressCallback.
C12_FallbackPlaintext ==
  (Settled /\ ValidInput /\ call.primaryError # NoError /\ ~IsTimeout(call.primaryError))
    => outcome = WholeBuffer[call.in, "throws"]

\* Both backends failed in the call / only the accelerated one did.
BothFailed == call.primaryError # NoError /\ call.fallbackError # NoError
OnlyPrimaryFailed == call.primaryError # NoError /\ call.fallbackError = NoError

\* The error carries the failure of the primary and of the fallback action.
CarriesBoth(error) ==
  /\ error.originalError.primary = Brief(call.primaryError)
  /\ error.originalError.fallback = Brief(call.fallbackError)
  /\ error.originalError.primary # NoBrief
  /\ error.originalError.fallback # NoBrief

Count(seq, x) == Cardinality({k \in 1..Len(seq) : seq[k] = x})

C14_TimeoutRace ==
  (call.pc # "idle" /\ elapsed >= call.timeout)
    => (outcome.status = "rejected" /\ IsTimeout(outcome.error))

\* C15: when the primary action of handleWithFallback fails with a timeout
\* (by type or by message), the fallback action is not called and the caller
\* is rejected with the timeout error.
C15_TimeoutNotRetried ==
  (handled.primary.status = "rejected" /\ IsTimeout(handled.primary.error))
    => /\ ~handled.fallbackCalled
       /\ handled.settled.status = "rejected"
       /\ IsTimeout(handled.settled.error)

\* The call's key does not decode to 32 bytes, its IV does not decode to 16
\* bytes, or its ciphertext is not a whole number of 16-byte blocks.
MalformedInput ==
  \/ Len(Base64Parse(call.in.keyBase64)) # 32
  \/ Len(Base64Parse(call.in.ivBase64)) # 16
  \/ Len(call.in.encryptedData) % 16 # 0

\* The types of the errors decryptImage reports when the ciphers fail on a
\* well-formed input: the accelerated backend's, and that of the combined
\* error.
CipherFailureTypes == {"WASM_EXECUTION_FAILED", "DECRYPTION_FAILED", "UNKNOWN_ERROR"}

\* C16: whichever backend decrypts, no backend cipher call is made with a key
\* that is not 32 bytes, an IV that is not 16 bytes or a ciphertext that is
\* not a multiple of 16 bytes, and a call with such an input is rejected
\* with an error whose type is not one used for cipher-level failures.
C16_ValidatedBeforeDecrypt ==
  /\ \A k \in 1..Len(cipherCalls) :
       /\ cipherCalls[k].keyLength = 32
       /\ cipherCalls[k].ivLength = 16
       /\ cipherCalls[k].dataLength % 16 = 0
  /\ (Settled /\ MalformedInput)
       => (outcome.status = "rejected" /\ outcome.error.type \notin CipherFailureTypes)

\* The primary action failed in _validateDecryptionInputs.
ValidationFailed == call.primaryError # NoError /\ call.primaryError = Validations[call.in]

\* C17: when input validation fails inside decryptImage the fallback action
\* is not started, and the caller is rejected with the validation error
\* itself.
C17_InvalidInputNotRetried ==
  ValidationFailed
    => /\ Count(started, "fallback") = 0
       /\ Settled
       /\ outcome = Rejected(call.primaryError)

LeqRatio(a, b) == a.num * b.den <= b.num * a.den

\* C18: the values passed to the progressCallback of one call never decrease.
C18_ProgressMonotone ==
  \A i \in 1..Len(progress), j \in 1..Len(progress) :
    i <= j => LeqRatio(progress[i], progress[j])

\* C19: initialize with forceMode 'wasm' resolves with mode 'wasm' or
\* rejects; with no forced mode it always resolves, with mode 'fallback'
\* whenever loading or initialising the module failed.
C19_ForcedModeStrict ==
  /\ (initResult.forceMode = "wasm" /\ initResult.status = "resolved")
       => (initResult.mode = "wasm" /\ ~initResult.failed)
  /\ (initResult.forceMode = "null" /\ initResult.status # "none")
       => /\ initResult.status = "resolved"
          /\ initResult.failed => initResult.mode = "fallback"

\* An automatic initialize whose module initialisation failed after the
\* decryptor was assigned.
C19_Witness ==
  /\ initResult = [forceMode |-> "null", failed |-> TRUE, status |-> "resolved",
                   mode |-> "fallback"]
  /\ wasmDecryptor

\* The step is a decryptImage call whose primary action reaches the
\* accelerated module's decrypt call.
InvokesWasm == call.pc \in {"idle", "settled"} /\ call'.pc = "primary"

\* C36: once the latest initialize was forced to 'fallback' and resolved, no
\* decryptImage call invokes the accelerated module, whatever an earlier
\* initialize had loaded.
C36_ForcedFallbackSkipsWasm ==
  [][(initResult.forceMode = "fallback" /\ initResult.status = "resolved")
       => ~InvokesWasm]_vars

StartsWith(buf, prefix) == Len(buf) >= Len(prefix) /\ SubSeq(buf, 1, Len(prefix)) = prefix

\* C20: verifyDecryptedImage answers valid for every buffer that begins with
\* the PNG signature and invalid for 16 zero bytes, module loaded or not.
C20_PngSignatureValid ==
  /\ StartsWith(verified.decryptedData, PngSignature) => verified.isValid
  /\ verified.decryptedData = Zeros(16) => ~verified.isValid

\* The case of a result, and whether its input is well formed: a key of 32
\* and an IV of 16 base64-encoded bytes, and a ciphertext of one or more
\* whole blocks.
CaseOf(r) == CHOOSE tc \in {TestCases[k] : k \in 1..Len(TestCases)} : tc.name = r.testCase

WellFormed(tc) ==
  /\ atobOk(tc.key) /\ Len(atob(tc.key)) = keyLength
  /\ atobOk(tc.iv) /\ Len(atob(tc.iv)) = ivLength
  /\ Len(tc.encrypted) > 0 /\ Len(tc.encrypted) % BlockSize = 0

\* C28: with the module loaded, both paths reject each malformed input, and
\* on each well-formed input both return the same bytes, the plaintext that
\* was encrypted.
C28_BackendsAgree ==
  \A k \in 1..Len(testResults) :
    LET r == testResults[k]
    IN  r.wasmLoaded =>
          IF WellFormed(CaseOf(r))
            THEN r.wasmSuccess /\ r.cryptojsSuccess /\ r.isConsistent /\ r.isOriginalMatch
            ELSE ~r.wasmSuccess /\ ~r.cryptojsSuccess

====
